---- MODULE Spec2Model ----
(***************************************************************************)
(* Model of the VSS enhanced-field extraction engine                       *)
(* (src/src/vss_enhanced_extractor_v2.py and the classes it uses).         *)
(*                                                                         *)
(* Conventions                                                             *)
(*  - A Python str is a sequence of one-character strings; a letter       *)
(*    outside ASCII is one token of the sequence, its base letter and a    *)
(*    digit for the diacritic ("e6" in trie6u, "o7" in Vo7), so that no    *)
(*    ASCII key can occur inside it; such tokens have no case.             *)
(*  - Python None is the record None; every value carries a "kind" field.  *)
(*  - A confidence c is held as the integer 100*c (hundredths); the base   *)
(*    confidences, the bonus and the penalty are tenths, the method        *)
(*    weights are tenths, so (base - penalty) * weight is in hundredths.   *)
(*    For every (base, weight) pair the code can form, the float result    *)
(*    falls in the same quality tier as the exact one.                     *)
(***************************************************************************)
EXTENDS Integers, Sequences, FiniteSets, TLC

(***************************************************************************)
(* Bounds of the model                                                     *)
(***************************************************************************)
\* number of unexpected exceptions injected during one call
MaxFaults == 1

(***************************************************************************)
(* Python values                                                           *)
(***************************************************************************)
None == [kind |-> "none"]

Str(s) == [kind |-> "str", s |-> s]

Num(n) == [kind |-> "num", n |-> n]

\* a dict with str keys
Dict(d) == [kind |-> "dict", d |-> d]

IsNone(v) == v.kind = "none"

(***************************************************************************)
(* str helpers                                                             *)
(***************************************************************************)
LowerLetters ==
  <<"a","b","c","d","e","f","g","h","i","j","k","l","m",
    "n","o","p","q","r","s","t","u","v","w","x","y","z">>

UpperLetters ==
  <<"A","B","C","D","E","F","G","H","I","J","K","L","M",
    "N","O","P","Q","R","S","T","U","V","W","X","Y","Z">>

DigitChars == <<"0","1","2","3","4","5","6","7","8","9">>

Range(s) == {s[i] : i \in DOMAIN s}

IsDigit(c) == c \in Range(DigitChars)

IsUpperChar(c) == c \in Range(UpperLetters)

IsLowerChar(c) == c \in Range(LowerLetters)

IsSpace(c) == c = " "

IndexOf(s, c) == CHOOSE i \in DOMAIN s : s[i] = c

UpperChar(c) == IF IsLowerChar(c) THEN UpperLetters[IndexOf(LowerLetters, c)] ELSE c

LowerChar(c) == IF IsUpperChar(c) THEN LowerLetters[IndexOf(UpperLetters, c)] ELSE c

\* str.upper()
upper(s) == [i \in DOMAIN s |-> UpperChar(s[i])]

\* str.lower()
lower(s) == [i \in DOMAIN s |-> LowerChar(s[i])]

\* sub in s
Contains(s, sub) ==
  \E i \in 0..(Len(s) - Len(sub)) : SubSeq(s, i + 1, i + Len(sub)) = sub

\* s.startswith(p)
StartsWith(s, p) == Len(s) >= Len(p) /\ SubSeq(s, 1, Len(p)) = p

\* str.strip()
RECURSIVE lstrip(_)
lstrip(s) == IF s # <<>> /\ IsSpace(Head(s)) THEN lstrip(Tail(s)) ELSE s

RECURSIVE rstrip(_)
rstrip(s) ==
  IF s # <<>> /\ IsSpace(s[Len(s)]) THEN rstrip(SubSeq(s, 1, Len(s) - 1)) ELSE s

strip(s) == rstrip(lstrip(s))

\* int(s) for a non-empty str of digits
RECURSIVE ParseInt(_)
ParseInt(s) ==
  IF s = <<>> THEN 0
  ELSE 10 * ParseInt(SubSeq(s, 1, Len(s) - 1)) + (IndexOf(DigitChars, s[Len(s)]) - 1)

\* truthiness of a Python value: None, "" and [] are false
Truthy(v) ==
  CASE v.kind = "none" -> FALSE
    [] v.kind = "str" -> v.s # <<>>
    [] v.kind = "members" -> v.list # <<>>
    [] v.kind = "mtext" -> v.pieces # <<>>
    [] v.kind = "dict" -> DOMAIN v.d # {}
    [] OTHER -> TRUE

(***************************************************************************)
(* config/constants.py                                                     *)
(***************************************************************************)
\* field_patterns.keys(), in insertion order
FieldOrder ==
  <<"so_dien_thoai", "thu_nhap", "ngan_hang", "ma_ho_gia_dinh", "thong_tin_thanh_vien">>

Fields == Range(FieldOrder)

\* a variant of METHOD_WEIGHTS in which the method does not weigh on the score
UnitWeights(method) == 10

\* METHOD_WEIGHTS, in tenths; METHOD_WEIGHTS.get(method, 0.5)
METHOD_WEIGHTS(method) ==
  CASE method = "css_selector" -> 10
    [] method = "regex_pattern" -> 9
    [] method = "xpath_simulation" -> 9
    [] method = "context_search" -> 8
    [] method = "fallback_pattern" -> 5
    [] OTHER -> 5

\* ERROR_PENALTIES['validation_error_penalty'], in tenths
validation_error_penalty == 1

\* ERROR_PENALTIES['data_quality_bonus'], in tenths
data_quality_bonus == 2

\* VALIDATION_RANGES
income_min == 100000

income_max == 100000000

household_code_min_length == 8

household_code_max_length == 15

phone_min_length == 9

phone_max_length == 11

(***************************************************************************)
(* config/patterns.py : NormalizationMappingsConfig                        *)
(***************************************************************************)
\* normalization_maps['banks'].keys(), in insertion order
BankCodes ==
  << <<"A","C","B">>, <<"V","C","B">>, <<"T","C","B">>, <<"C","T","G">>,
     <<"M","B","B">>, <<"V","T","B">>, <<"S","H","B">>, <<"E","I","B">>,
     <<"O","C","B">>, <<"T","P","B">>, <<"H","D","B">>, <<"B","I","D">>,
     <<"V","I","B">>, <<"S","E","A">> >>

\* normalization_maps['banks'][code]: the full name, written "NH (<code>)"
BankFullName(code) == <<"N","H"," ","(">> \o code \o <<")">>

\* normalization_maps['currency_multipliers'], in insertion order
\* (units trie6u, nghi2n, ty3: see the conventions for the letter tokens)
CurrencyUnits ==
  << [unit |-> <<"t","r","i","e6","u">>, multiplier |-> 1000000],
     [unit |-> <<"m","i","l","l","i","o","n">>, multiplier |-> 1000000],
     [unit |-> <<"n","g","h","i2","n">>, multiplier |-> 1000],
     [unit |-> <<"t","h","o","u","s","a","n","d">>, multiplier |-> 1000],
     [unit |-> <<"k">>, multiplier |-> 1000],
     [unit |-> <<"t","y3">>, multiplier |-> 1000000000],
     [unit |-> <<"b","i","l","l","i","o","n">>, multiplier |-> 1000000000] >>

(***************************************************************************)
(* normalizers/field_normalizers.py                                        *)
(***************************************************************************)
\* re.match(r'^0[1-9][0-9]{8,9}$', digits)
MatchesVietnamPhone(d) ==
  /\ Len(d) \in {10, 11}
  /\ d[1] = "0"
  /\ IsDigit(d[2]) /\ d[2] # "0"
  /\ \A i \in 3..Len(d) : IsDigit(d[i])

\* a variant of the phone normaliser that keeps a leading 84
phone_digits_as_they_are(phone) ==
  IF MatchesVietnamPhone(SelectSeq(phone, IsDigit)) THEN SelectSeq(phone, IsDigit)
  ELSE phone

\* PhoneNormalizer.normalize on a str
PhoneNormalizer_normalize(phone) ==
  IF phone = <<>> THEN <<>>
  ELSE
    LET digits0 == SelectSeq(phone, IsDigit)
        digits == IF StartsWith(digits0, <<"8","4">>) /\ Len(digits0) >= 10
                    THEN <<"0">> \o SubSeq(digits0, 3, Len(digits0))
                    ELSE digits0
    IN IF MatchesVietnamPhone(digits) THEN digits ELSE phone

\* the first unit of currency_multipliers occurring in income.lower(), 0 if none
RECURSIVE FirstUnitFrom(_, _)
FirstUnitFrom(text, i) ==
  IF i > Len(CurrencyUnits) THEN 0
  ELSE IF Contains(text, CurrencyUnits[i].unit) THEN i
  ELSE FirstUnitFrom(text, i + 1)

\* a variant of the income normaliser that applies no multiplier
income_without_multiplier(income) ==
  IF income = <<>> THEN None
  ELSE [kind |-> "income",
        amount |-> IF SelectSeq(income, IsDigit) # <<>>
                   THEN ParseInt(SelectSeq(income, IsDigit)) ELSE 0,
        currency |-> "VND",
        original |-> income,
        parsing_successful |-> SelectSeq(income, IsDigit) # <<>>,
        multiplier_applied |-> <<>>]

\* IncomeNormalizer.normalize on a str: a NormalizedIncome
\* (the field "formatted", a rendering of amount and currency, is left out)
IncomeNormalizer_normalize(income) ==
  IF income = <<>> THEN None
  ELSE
    LET numeric_str == SelectSeq(income, IsDigit)
        u == FirstUnitFrom(lower(income), 1)
    IN IF numeric_str # <<>>
       THEN [kind |-> "income",
             amount |-> IF u = 0 THEN ParseInt(numeric_str)
                        ELSE ParseInt(numeric_str) * CurrencyUnits[u].multiplier,
             currency |-> "VND",
             original |-> income,
             parsing_successful |-> TRUE,
             multiplier_applied |-> IF u = 0 THEN <<>> ELSE CurrencyUnits[u].unit]
       ELSE [kind |-> "income", amount |-> 0, currency |-> "VND",
             original |-> income, parsing_successful |-> FALSE,
             multiplier_applied |-> <<>>]

\* str.split() on whitespace
RECURSIVE split(_)
split(s) ==
  LET t == lstrip(s)
  IN IF t = <<>> THEN <<>>
     ELSE LET n == IF \E i \in DOMAIN t : IsSpace(t[i])
                   THEN (CHOOSE i \in DOMAIN t :
                           IsSpace(t[i]) /\ \A j \in 1..(i - 1) : ~IsSpace(t[j])) - 1
                   ELSE Len(t)
          IN <<SubSeq(t, 1, n)>> \o split(SubSeq(t, n + 1, Len(t)))

\* str.title(): first letter of each run of letters upper, the others lower
title(s) ==
  [i \in DOMAIN s |->
     IF i = 1 \/ ~(IsLowerChar(s[i - 1]) \/ IsUpperChar(s[i - 1]))
     THEN UpperChar(s[i]) ELSE LowerChar(s[i])]

\* first code of the table for which the exact test holds, 0 if none
RECURSIVE BankExactFrom(_, _)
BankExactFrom(bank, i) ==
  IF i > Len(BankCodes) THEN 0
  ELSE IF Contains(strip(upper(bank)), BankCodes[i])
          \/ Contains(lower(bank), lower(BankCodes[i])) THEN i
  ELSE BankExactFrom(bank, i + 1)

\* first code of the table one of whose words occurs in bank_upper, 0 if none
RECURSIVE BankPartialFrom(_, _)
BankPartialFrom(bank, i) ==
  IF i > Len(BankCodes) THEN 0
  ELSE IF \E w \in Range(split(BankCodes[i])) : Contains(strip(upper(bank)), w) THEN i
  ELSE BankPartialFrom(bank, i + 1)

\* BankNormalizer.normalize on a str: a NormalizedBank (confidence in tenths)
BankNormalizer_normalize(bank) ==
  IF bank = <<>> THEN None
  ELSE
    LET e == BankExactFrom(bank, 1)
        p == BankPartialFrom(bank, 1)
    IN IF e # 0
       THEN [kind |-> "bank", code |-> BankCodes[e], full_name |-> BankFullName(BankCodes[e]),
             original |-> bank, match_type |-> "exact", confidence |-> 10]
       ELSE IF p # 0
       THEN [kind |-> "bank", code |-> BankCodes[p], full_name |-> BankFullName(BankCodes[p]),
             original |-> bank, match_type |-> "partial", confidence |-> 8]
       ELSE [kind |-> "bank", code |-> <<>>, full_name |-> title(bank),
             original |-> bank, match_type |-> "unknown", confidence |-> 5]

\* re.match(r'^[A-Z0-9]{8,15}$', code)
MatchesHouseholdCode(code) ==
  /\ Len(code) >= 8 /\ Len(code) <= 15
  /\ \A i \in DOMAIN code : IsUpperChar(code[i]) \/ IsDigit(code[i])

NotSpace(c) == ~IsSpace(c)

\* HouseholdCodeNormalizer.normalize on a str
HouseholdCodeNormalizer_normalize(code) ==
  IF code = <<>> THEN <<>>
  ELSE LET normalized == SelectSeq(upper(code), NotSpace)
       IN IF MatchesHouseholdCode(normalized) THEN normalized ELSE code

\* normalization_maps['relationships'], in insertion order
RelationshipMap ==
  << [key |-> <<"c","o","n">>, normalized |-> <<"C","o","n">>],
     [key |-> <<"v","o">>, normalized |-> <<"V","o7">>],
     [key |-> <<"c","h","o","n","g">>, normalized |-> <<"C","h","o8","n","g">>],
     [key |-> <<"c","h","a">>, normalized |-> <<"C","h","a">>],
     [key |-> <<"m","e">>, normalized |-> <<"M","e9">>],
     [key |-> <<"a","n","h">>, normalized |-> <<"A","n","h">>],
     [key |-> <<"c","h","i">>, normalized |-> <<"C","h","i9">>],
     [key |-> <<"e","m">>, normalized |-> <<"E","m">>],
     [key |-> <<"o","n","g">>, normalized |-> <<"O1","n","g">>],
     [key |-> <<"b","a">>, normalized |-> <<"B","a2">>],
     [key |-> <<"c","h","u">>, normalized |-> <<"C","h","u1">>],
     [key |-> <<"c","o">>, normalized |-> <<"C","o1">>],
     [key |-> <<"b","a","c">>, normalized |-> <<"B","a1","c">>],
     [key |-> <<"d","i">>, normalized |-> <<"D","i2">>],
     [key |-> <<"d","u","o","n","g">>, normalized |-> <<"D","u7","n","g">>] >>

\* MemberInfo(name, relationship, birth_year); birth_year "" stands for None
MemberInfo(name, relationship, birth_year) ==
  [name |-> name, relationship |-> relationship, birth_year |-> birth_year]

\* the raw member text: the texts of its '|'-separated pieces.  What each
\* regular expression of the normaliser finds in a piece is part of the piece:
\*   tr, json : the triples found by tr_pattern and json_pattern,
\*   p1, p2, p3 : the matches of pattern1, pattern2, pattern3 (as name,
\*                relationship, birth year),
\*   delim : the member rel_pattern finds when the piece is a segment.
MText(pieces) == [kind |-> "mtext", pieces |-> pieces]

Members(list) == [kind |-> "members", list |-> list]

str_isdigit(s) == s # <<>> /\ \A i \in DOMAIN s : IsDigit(s[i])

RECURSIVE RelationshipFrom(_, _)
RelationshipFrom(rel_lower, i) ==
  IF i > Len(RelationshipMap) THEN 0
  ELSE IF Contains(rel_lower, RelationshipMap[i].key) THEN i
  ELSE RelationshipFrom(rel_lower, i + 1)

\* MemberInfoNormalizer._normalize_relationship
normalize_relationship(relationship) ==
  IF relationship = <<>> THEN <<>>
  ELSE LET k == RelationshipFrom(strip(lower(relationship)), 1)
       IN IF k # 0 THEN RelationshipMap[k].normalized ELSE title(relationship)

\* all matches of one expression over the text, in text order
RECURSIVE FindAll(_, _)
FindAll(pieces, stage) ==
  IF pieces = <<>> THEN <<>>
  ELSE Head(pieces)[stage] \o FindAll(Tail(pieces), stage)

RECURSIVE MapMembers(_, _)
MapMembers(matches, stage) ==
  IF matches = <<>> THEN <<>>
  ELSE
    LET m == Head(matches)
        name == strip(m.name)
        rel == strip(m.relationship)
        year == strip(m.birth_year)
        one ==
          CASE stage = "tr" ->
                 IF name # <<>> /\ rel # <<>>
                 THEN <<MemberInfo(name, normalize_relationship(rel),
                                   IF str_isdigit(year) THEN year ELSE <<>>)>>
                 ELSE <<>>
            [] stage = "json" ->
                 <<MemberInfo(name, normalize_relationship(m.relationship),
                              IF str_isdigit(m.birth_year) THEN year ELSE <<>>)>>
            [] stage = "delim" ->
                 IF name # <<>>
                 THEN <<MemberInfo(name, normalize_relationship(rel), m.birth_year)>>
                 ELSE <<>>
            [] OTHER ->
                 <<MemberInfo(name, normalize_relationship(m.relationship), m.birth_year)>>
    IN one \o MapMembers(Tail(matches), stage)

\* MemberInfoNormalizer._extract_from_table_rows
extract_from_table_rows(text) == MapMembers(FindAll(text.pieces, "tr"), "tr")

\* MemberInfoNormalizer._extract_from_json
extract_from_json(text) == MapMembers(FindAll(text.pieces, "json"), "json")

\* a variant that stops at the first of the three patterns that matches
structured_text_first_pattern_only(text) ==
  IF FindAll(text.pieces, "p1") # <<>> THEN MapMembers(FindAll(text.pieces, "p1"), "p1")
  ELSE IF FindAll(text.pieces, "p2") # <<>> THEN MapMembers(FindAll(text.pieces, "p2"), "p2")
  ELSE MapMembers(FindAll(text.pieces, "p3"), "p3")

\* MemberInfoNormalizer._extract_from_structured_text: the matches of pattern1,
\* then those of pattern2, then those of pattern3, all appended to one list
extract_from_structured_text(text) ==
  MapMembers(FindAll(text.pieces, "p1"), "p1")
    \o MapMembers(FindAll(text.pieces, "p2"), "p2")
    \o MapMembers(FindAll(text.pieces, "p3"), "p3")

\* MemberInfoNormalizer._extract_from_delimited_text
extract_from_delimited_text(text) == MapMembers(FindAll(text.pieces, "delim"), "delim")

\* f"{member.name.lower().strip()}_{member.relationship.lower().strip()}"
MemberKey(m) == strip(lower(m.name)) \o <<"_">> \o strip(lower(m.relationship))

\* MemberInfoNormalizer._remove_duplicates
RECURSIVE remove_duplicates_from(_, _)
remove_duplicates_from(members, seen) ==
  IF members = <<>> THEN <<>>
  ELSE LET m == Head(members)
       IN IF MemberKey(m) \notin seen /\ m.name # <<>> /\ m.relationship # <<>>
          THEN <<m>> \o remove_duplicates_from(Tail(members), seen \cup {MemberKey(m)})
          ELSE remove_duplicates_from(Tail(members), seen)

remove_duplicates(members) == remove_duplicates_from(members, {})

\* MemberInfoNormalizer.normalize on a member text: a list of MemberInfo
MemberInfoNormalizer_normalize(member_text) ==
  IF member_text.pieces = <<>> THEN Members(<<>>)
  ELSE
    LET m1 == extract_from_table_rows(member_text)
        m2 == IF m1 = <<>> THEN extract_from_json(member_text) ELSE m1
        m3 == IF m2 = <<>> THEN extract_from_structured_text(member_text) ELSE m2
        m4 == IF m3 = <<>> THEN extract_from_delimited_text(member_text) ELSE m3
    IN Members(remove_duplicates(m4))

\* NormalizerFactory.get_normalizer(field_name)().normalize(value)
Normalizer(field_name, value) ==
  CASE field_name = "so_dien_thoai" -> Str(PhoneNormalizer_normalize(value.s))
    [] field_name = "thu_nhap" -> IncomeNormalizer_normalize(value.s)
    [] field_name = "ngan_hang" -> BankNormalizer_normalize(value.s)
    [] field_name = "ma_ho_gia_dinh" -> Str(HouseholdCodeNormalizer_normalize(value.s))
    [] field_name = "thong_tin_thanh_vien" -> MemberInfoNormalizer_normalize(value)

(***************************************************************************)
(* str() of a value                                                        *)
(***************************************************************************)
RECURSIVE IntToStr(_)
IntToStr(n) ==
  IF n < 10 THEN <<DigitChars[n + 1]>>
  ELSE IntToStr(n \div 10) \o <<DigitChars[(n % 10) + 1]>>

RECURSIVE JoinPieces(_)
JoinPieces(pieces) ==
  IF pieces = <<>> THEN <<>>
  ELSE IF Len(pieces) = 1 THEN Head(pieces).text
  ELSE Head(pieces).text \o <<" ", "|", " ">> \o JoinPieces(Tail(pieces))

RECURSIVE ReprMembers(_)
ReprMembers(list) ==
  IF list = <<>> THEN <<>>
  ELSE <<"MemberInfo(name='">> \o Head(list).name \o <<"', relationship='">>
         \o Head(list).relationship \o <<"', birth_year='">> \o Head(list).birth_year
         \o <<"')">> \o ReprMembers(Tail(list))

\* str(value): a str is itself, a dataclass is its repr, whose fixed parts
\* are single tokens
PyStr(v) ==
  CASE v.kind = "str" -> v.s
    [] v.kind = "mtext" -> JoinPieces(v.pieces)
    [] v.kind = "num" -> IntToStr(v.n)
    [] v.kind = "none" -> <<"N","o","n","e">>
    [] v.kind = "income" ->
         <<"NormalizedIncome(amount=">> \o IntToStr(v.amount) \o <<", original='">>
           \o v.original \o <<"')">>
    [] v.kind = "bank" ->
         <<"NormalizedBank(code=">>
           \o (IF v.code = <<>> THEN <<"None">> ELSE <<"'">> \o v.code \o <<"'">>)
           \o <<", full_name='">> \o v.full_name
           \o <<"', original='">> \o v.original \o <<"', match_type='", v.match_type,
                 "', confidence=">>
           \o (IF v.confidence = 10 THEN <<"1", ".", "0">>
               ELSE <<"0", ".">> \o IntToStr(v.confidence))
           \o <<")">>
    [] v.kind = "members" -> <<"[">> \o ReprMembers(v.list) \o <<"]">>

(***************************************************************************)
(* validators/field_validators.py                                          *)
(* A ValidationResult is [raised |-> FALSE, errors, warnings]; a validator *)
(* that raises gives [raised |-> TRUE, msg].                               *)
(***************************************************************************)
ValidationResult(errors, warnings) ==
  [raised |-> FALSE, errors |-> errors, warnings |-> warnings]

Raised(msg) == [raised |-> TRUE, msg |-> msg]

\* normalization_maps['phone_prefixes'].keys()
PhonePrefixes ==
  { <<"0","3","2">>, <<"0","3","3">>, <<"0","3","4">>, <<"0","3","5">>,
    <<"0","3","6">>, <<"0","3","7">>, <<"0","3","8">>, <<"0","3","9">>,
    <<"0","7","0">>, <<"0","7","6">>, <<"0","7","7">>, <<"0","7","8">>, <<"0","7","9">>,
    <<"0","8","1">>, <<"0","8","2">>, <<"0","8","3">>, <<"0","8","4">>, <<"0","8","5">>,
    <<"0","8","8">>, <<"0","9","1">>, <<"0","9","4">> }

\* PhoneValidator.validate
PhoneValidator_validate(phone) ==
  IF ~Truthy(phone) THEN ValidationResult(<<"Phone number is empty">>, <<>>)
  ELSE IF phone.kind # "str" THEN Raised("TypeError")
  ELSE
    LET s == phone.s
        e1 == IF ~MatchesVietnamPhone(s)
              THEN <<"Invalid Vietnam phone number format">> ELSE <<>>
        e2 == IF Len(s) < phone_min_length \/ Len(s) > phone_max_length
              THEN <<"Phone number length should be between 9 and 11 digits">> ELSE <<>>
        w == IF Len(s) >= 3 /\ SubSeq(s, 1, 3) \notin PhonePrefixes
             THEN <<"Unknown phone prefix">> ELSE <<>>
    IN ValidationResult(e1 \o e2, w)

\* NormalizedIncome.is_reasonable
is_reasonable(income) == income_min <= income.amount /\ income.amount <= income_max

\* a variant of the income validator without the range check
lenient_income_validate(income) == ValidationResult(<<>>, <<>>)

\* IncomeValidator.validate
IncomeValidator_validate(income) ==
  IF ~Truthy(income) THEN ValidationResult(<<"Income data is empty">>, <<>>)
  ELSE IF income.kind # "income" THEN Raised("AttributeError")
  ELSE IF ~income.parsing_successful THEN ValidationResult(<<"Income parsing failed">>, <<>>)
  ELSE
    LET e == IF income.amount < income_min THEN <<"Income seems too low">>
             ELSE IF income.amount > income_max THEN <<"Income seems too high">>
             ELSE <<>>
        w == IF ~is_reasonable(income)
             THEN <<"Income amount may be outside reasonable range">> ELSE <<>>
    IN ValidationResult(e, w)

\* BankValidator.validate
BankValidator_validate(bank) ==
  IF ~Truthy(bank) THEN ValidationResult(<<"Bank data is empty">>, <<>>)
  ELSE IF bank.kind # "bank" THEN Raised("AttributeError")
  ELSE
    LET e == IF bank.match_type = "error"
             THEN <<"Error occurred during bank normalization">> ELSE <<>>
        w1 == IF bank.match_type = "unknown"
              THEN <<"Bank not found in known banks list">> ELSE <<>>
        w2 == IF bank.confidence < 5 THEN <<"Low confidence in bank matching">> ELSE <<>>
    IN ValidationResult(e, w1 \o w2)

\* HouseholdCodeValidator.validate
HouseholdCodeValidator_validate(code) ==
  IF ~Truthy(code) THEN ValidationResult(<<"Household code is empty">>, <<>>)
  ELSE IF code.kind # "str" THEN Raised("TypeError")
  ELSE
    LET s == code.s
        e1 == IF ~MatchesHouseholdCode(s)
              THEN <<"Invalid household code format">> ELSE <<>>
        e2 == IF Len(s) < household_code_min_length THEN <<"Household code too short">>
              ELSE IF Len(s) > household_code_max_length THEN <<"Household code too long">>
              ELSE <<>>
    IN ValidationResult(e1 \o e2, <<>>)

\* set(normalization_maps['relationships'].values())
valid_relationships == {RelationshipMap[i].normalized : i \in DOMAIN RelationshipMap}

\* the year as an int is outside 1900..2025 (current_year = 2025)
UnreasonableYear(y) ==
  Len(y) > 4 \/ (Len(y) = 4 /\ (ParseInt(y) < 1900 \/ ParseInt(y) > 2025)) \/ Len(y) < 4

RECURSIVE MemberErrors(_)
MemberErrors(list) ==
  IF list = <<>> THEN <<>>
  ELSE LET m == Head(list)
       IN (IF strip(m.name) = <<>> THEN <<"Member: Missing name">> ELSE <<>>)
            \o (IF strip(m.relationship) = <<>>
                THEN <<"Member: Missing relationship">> ELSE <<>>)
            \o MemberErrors(Tail(list))

RECURSIVE MemberWarnings(_)
MemberWarnings(list) ==
  IF list = <<>> THEN <<>>
  ELSE LET m == Head(list)
       IN (IF m.relationship # <<>> /\ m.relationship \notin valid_relationships
           THEN <<"Member: Unknown relationship type">> ELSE <<>>)
            \o (IF m.birth_year = <<>> THEN <<>>
                ELSE IF ~str_isdigit(m.birth_year)
                THEN <<"Member: Invalid birth year format">>
                ELSE IF UnreasonableYear(m.birth_year)
                THEN <<"Member: Birth year seems unreasonable">>
                ELSE <<>>)
            \o (IF m.name = <<>> \/ m.relationship = <<>>
                THEN <<"Member: Incomplete information">> ELSE <<>>)
            \o MemberWarnings(Tail(list))

\* MemberInfoValidator.validate
MemberInfoValidator_validate(members) ==
  IF ~Truthy(members) THEN ValidationResult(<<"No member information found">>, <<>>)
  ELSE IF members.kind # "members" THEN Raised("AttributeError")
  ELSE ValidationResult(MemberErrors(members.list), MemberWarnings(members.list))

\* ValidatorFactory.get_validator(field_name)().validate(value)
Validator(field_name, value) ==
  CASE field_name = "so_dien_thoai" -> PhoneValidator_validate(value)
    [] field_name = "thu_nhap" -> IncomeValidator_validate(value)
    [] field_name = "ngan_hang" -> BankValidator_validate(value)
    [] field_name = "ma_ho_gia_dinh" -> HouseholdCodeValidator_validate(value)
    [] field_name = "thong_tin_thanh_vien" -> MemberInfoValidator_validate(value)

(***************************************************************************)
(* validators/field_validators.py : CrossValidator                         *)
(***************************************************************************)
\* field_mappings.get(field_name, [])
field_mappings(field_name) ==
  CASE field_name = "so_dien_thoai" -> <<"phone", "dien_thoai", "sdt">>
    [] field_name = "thu_nhap" -> <<"income", "salary", "luong", "thu_nhap">>
    [] field_name = "ngan_hang" -> <<"bank", "ngan_hang">>
    [] field_name = "ma_ho_gia_dinh" -> <<"household_code", "ma_ho", "hgd">>
    [] field_name = "thong_tin_thanh_vien" -> <<"members", "thanh_vien", "family">>
    [] OTHER -> <<>>

\* a comparison: match, similarity as the fraction num/den, notes
Comparison(match, num, den, notes) ==
  [match |-> match, similarity |-> [num |-> num, den |-> den], notes |-> notes]

\* a variant that compares the two values as they are written
compare_phone_values_as_written(extracted, input_val) ==
  Comparison(PyStr(extracted) = PyStr(input_val),
             IF PyStr(extracted) = PyStr(input_val) THEN 1 ELSE 0, 1, "Normalized")

\* CrossValidator._compare_phone_values
compare_phone_values(extracted, input_val) ==
  LET norm_extracted == PhoneNormalizer_normalize(PyStr(extracted))
      norm_input == PhoneNormalizer_normalize(PyStr(input_val))
      match == norm_extracted = norm_input
  IN Comparison(match, IF match THEN 1 ELSE 0, 1, "Normalized")

NotComma(c) == c # ","

\* float(str(v).replace(',', '')) is defined: a str of digits, blanks around it
\* allowed (a fraction part, a sign and an exponent are not modelled)
IsFloatStr(s) == str_isdigit(strip(SelectSeq(s, NotComma)))

FloatOf(s) == ParseInt(strip(SelectSeq(s, NotComma)))

Abs(n) == IF n < 0 THEN -n ELSE n

Max(a, b) == IF a >= b THEN a ELSE b

Min(a, b) == IF a <= b THEN a ELSE b

\* CrossValidator._compare_income_values; a ValueError gives no match
compare_income_values(extracted, input_val) ==
  LET e_str == IF extracted.kind = "income" THEN IntToStr(extracted.amount)
               ELSE PyStr(extracted)
      i_str == PyStr(input_val)
  IN IF ~IsFloatStr(e_str) \/ ~IsFloatStr(i_str)
     THEN Comparison(FALSE, 0, 1, "Cannot compare as numbers")
     ELSE LET e == FloatOf(e_str)
              i == FloatOf(i_str)
              m == Max(i, 1)
              d == Abs(e - i)
          \* diff_percent = d / m * 100 < 10, that is d * 10 < m, written without
          \* the product; similarity = max(0, 1 - diff_percent / 100)
          IN Comparison(d <= (m - 1) \div 10, Max(0, m - d), m, "Difference")

\* CrossValidator._compare_generic_values (similarity 0.7 is the fraction 7/10)
compare_generic_values(extracted, input_val) ==
  LET str_extracted == strip(lower(PyStr(extracted)))
      str_input == strip(lower(PyStr(input_val)))
      match == str_extracted = str_input
  IN IF match THEN Comparison(TRUE, 1, 1, "String comparison")
     ELSE IF Contains(str_input, str_extracted) \/ Contains(str_extracted, str_input)
     THEN Comparison(FALSE, 7, 10, "String comparison")
     ELSE Comparison(FALSE, 0, 1, "String comparison")

\* CrossValidator._compare_values
compare_values(field_name, extracted, input_val) ==
  IF field_name = "so_dien_thoai" THEN compare_phone_values(extracted, input_val)
  ELSE IF field_name = "thu_nhap" THEN compare_income_values(extracted, input_val)
  ELSE compare_generic_values(extracted, input_val)

\* the first key of possible_keys that is in input_data, 0 if none
RECURSIVE FirstKeyFrom(_, _, _)
FirstKeyFrom(keys, d, i) ==
  IF i > Len(keys) THEN 0
  ELSE IF keys[i] \in DOMAIN d THEN i
  ELSE FirstKeyFrom(keys, d, i + 1)

\* a variant that takes a field without reference data for inconsistent
consistency_requires_reference(field_name, extracted_value, input_data) ==
  [is_consistent |-> FALSE,
   input_key |-> "",
   similarity_score |-> [num |-> 0, den |-> 1],
   comparison_notes |-> "No corresponding input data found"]

\* CrossValidator.validate_field_consistency
validate_field_consistency(field_name, extracted_value, input_data) ==
  LET possible_keys == field_mappings(field_name)
      k == FirstKeyFrom(possible_keys, input_data.d, 1)
  IN IF k # 0
     THEN LET consistency ==
                compare_values(field_name, extracted_value, input_data.d[possible_keys[k]])
          IN [is_consistent |-> consistency.match,
              input_key |-> possible_keys[k],
              similarity_score |-> consistency.similarity,
              comparison_notes |-> consistency.notes]
     ELSE [is_consistent |-> TRUE,
           input_key |-> "",
           similarity_score |-> [num |-> 0, den |-> 1],
           comparison_notes |-> "No corresponding input data found"]

(***************************************************************************)
(* extractors/base_extractor.py : scoring                                  *)
(***************************************************************************)
\* a variant of calculate_confidence_score without the final max/min
unclamped_confidence_score(base_confidence, validation_errors, method) ==
  (base_confidence - Len(validation_errors) * validation_error_penalty)
    * METHOD_WEIGHTS(method)

\* BaseExtractor.calculate_confidence_score, in hundredths
calculate_confidence_score(base_confidence, validation_errors, method) ==
  LET error_penalty == Len(validation_errors) * validation_error_penalty
      confidence == (base_confidence - error_penalty) * METHOD_WEIGHTS(method)
  IN Max(0, Min(100, confidence))

\* a variant of determine_quality_level whose two upper tiers are exchanged
exchanged_quality_level(confidence) ==
  IF confidence >= 90 THEN "good"
  ELSE IF confidence >= 70 THEN "excellent"
  ELSE IF confidence >= 50 THEN "moderate"
  ELSE IF confidence > 0 THEN "poor"
  ELSE "failed"

\* BaseExtractor.determine_quality_level, confidence in hundredths
determine_quality_level(confidence) ==
  IF confidence >= 90 THEN "excellent"
  ELSE IF confidence >= 70 THEN "good"
  ELSE IF confidence >= 50 THEN "moderate"
  ELSE IF confidence > 0 THEN "poor"
  ELSE "failed"

\* BaseExtractor.get_normalization_applied
get_normalization_applied(field_name, original, normalized) ==
  IF ~Truthy(original) THEN <<>>
  ELSE IF PyStr(original) = PyStr(normalized) THEN <<>>
  ELSE
    LET o == PyStr(original)
    IN <<"value_changed">> \o
       (CASE field_name = "so_dien_thoai" ->
               (IF Contains(o, <<"8","4">>)
                THEN <<"international_prefix_converted">> ELSE <<>>)
               \o (IF \E c \in {"-", "(", ")", " "} : Contains(o, <<c>>)
                   THEN <<"formatting_removed">> ELSE <<>>)
          [] field_name = "thu_nhap" ->
               <<"currency_parsed">>
               \o (IF Contains(lower(o), <<"t","r","i","e6","u">>)
                   THEN <<"million_multiplier_applied">> ELSE <<>>)
          [] field_name = "ngan_hang" -> <<"bank_name_standardized">>
          [] field_name = "ma_ho_gia_dinh" ->
               <<"uppercase_conversion">>
               \o (IF Contains(o, <<" ">>) THEN <<"spaces_removed">> ELSE <<>>)
          [] OTHER -> <<>>)

(***************************************************************************)
(* vss_enhanced_extractor_v2.py : the steps of _extract_single_field       *)
(***************************************************************************)
\* an entry of extraction_attempts: (method, value, base confidence in tenths)
Attempt(method, value, base) ==
  [kind |-> "attempt", method |-> method, value |-> value, base |-> base]

\* a variant of max(...) that keeps the last attempt of greatest confidence
RECURSIVE LastMaxFrom(_, _)
LastMaxFrom(attempts, best) ==
  IF attempts = <<>> THEN best
  ELSE LastMaxFrom(Tail(attempts),
                   IF Head(attempts).base >= best.base THEN Head(attempts) ELSE best)

\* max(attempts, key=lambda x: x[2]): the first attempt of greatest confidence
RECURSIVE FirstMaxFrom(_, _)
FirstMaxFrom(attempts, best) ==
  IF attempts = <<>> THEN best
  ELSE FirstMaxFrom(Tail(attempts),
                    IF Head(attempts).base > best.base THEN Head(attempts) ELSE best)

FirstMax(attempts) == FirstMaxFrom(Tail(attempts), Head(attempts))

\* a variant of _normalize_field_value whose handler drops the value
normalize_or_drop(field_name, value, raises) ==
  IF ~Truthy(value) \/ raises THEN None
  ELSE Normalizer(field_name, value)

\* VSS_EnhancedExtractor._normalize_field_value; raises: the normaliser raises,
\* which the method catches, returning the value as it is
normalize_field_value(field_name, value, raises) ==
  IF ~Truthy(value) THEN None
  ELSE IF raises THEN value
  ELSE Normalizer(field_name, value)

\* a variant of the loop of _select_best_extraction_result that keeps every
\* attempt, whatever it normalises to
RECURSIVE AllAttemptsWithBonus(_, _)
AllAttemptsWithBonus(field_name, attempts) ==
  IF attempts = <<>> THEN <<>>
  ELSE <<Attempt(Head(attempts).method, Head(attempts).value,
                 Head(attempts).base + data_quality_bonus)>>
       \o AllAttemptsWithBonus(field_name, Tail(attempts))

\* the attempts whose normalised value holds data, each with the bonus added
RECURSIVE ValidAttempts(_, _)
ValidAttempts(field_name, attempts) ==
  IF attempts = <<>> THEN <<>>
  ELSE LET a == Head(attempts)
           test_normalized == normalize_field_value(field_name, a.value, FALSE)
       IN (IF Truthy(test_normalized)
           THEN <<Attempt(a.method, a.value, a.base + data_quality_bonus)>>
           ELSE <<>>)
          \o ValidAttempts(field_name, Tail(attempts))

\* a variant that ranks with the bonus and returns the winner with the
\* confidence it was collected with
rank_with_bonus_only(field_name, extraction_attempts) ==
  IF field_name = "thong_tin_thanh_vien"
       /\ ValidAttempts(field_name, extraction_attempts) # <<>>
  THEN Attempt(FirstMax(ValidAttempts(field_name, extraction_attempts)).method,
               FirstMax(ValidAttempts(field_name, extraction_attempts)).value,
               FirstMax(ValidAttempts(field_name, extraction_attempts)).base
                 - data_quality_bonus)
  ELSE FirstMax(extraction_attempts)

\* VSS_EnhancedExtractor._select_best_extraction_result
select_best_extraction_result(field_name, extraction_attempts) ==
  IF field_name = "thong_tin_thanh_vien"
       /\ ValidAttempts(field_name, extraction_attempts) # <<>>
  THEN FirstMax(ValidAttempts(field_name, extraction_attempts))
  ELSE FirstMax(extraction_attempts)

\* a variant that leaves the reference record out of the validation
validate_field_value_without_reference(field_name, value, input_data, raises, importable) ==
  LET v == Validator(field_name, value)
  IN IF raises \/ v.raised
     THEN IF importable
          THEN ValidationResult(
                 <<"Validation error: " \o (IF raises THEN "fault" ELSE v.msg)>>, <<>>)
          ELSE Raised("No module named 'config'")
     ELSE v

\* VSS_EnhancedExtractor._validate_field_value.  raises: the validator raises
\* unexpectedly; importable: the handler's "from config.data_models import
\* ValidationResult" finds a top-level package config on sys.path, which the
\* tests and examples arrange and a caller of the package src need not.  The
\* notes of a comparison are held by their leading words.
validate_field_value(field_name, value, input_data, raises, importable) ==
  LET v == Validator(field_name, value)
  IN IF raises \/ v.raised
     THEN IF importable
          THEN ValidationResult(
                 <<"Validation error: " \o (IF raises THEN "fault" ELSE v.msg)>>, <<>>)
          ELSE Raised("No module named 'config'")
     ELSE IF Truthy(input_data)
               /\ ~validate_field_consistency(field_name, value, input_data).is_consistent
     THEN ValidationResult(
            v.errors \o <<"Cross-validation failed: "
                            \o validate_field_consistency(field_name, value,
                                                          input_data).comparison_notes>>,
            v.warnings)
     ELSE v

ExtractionResult(field_name, value, confidence, quality, method, fallback_used, errors, applied) ==
  [field_name |-> field_name,
   extracted_value |-> value,
   confidence_score |-> confidence,
   quality_level |-> quality,
   extraction_method |-> method,
   fallback_used |-> fallback_used,
   validation_errors |-> errors,
   normalization_applied |-> applied]

\* a variant of _create_failed_extraction_result that records no error
failed_result_without_error(field_name, error_message) ==
  ExtractionResult(field_name, None, 0, "failed", "none", FALSE, <<>>, <<>>)

\* VSS_EnhancedExtractor._create_failed_extraction_result
create_failed_extraction_result(field_name, error_message) ==
  ExtractionResult(field_name, None, 0, "failed", "none", FALSE, <<error_message>>, <<>>)

\* the ExtractionResult built at the end of _extract_single_field
build_extraction_result(field_name, best, normalized_value, errors, final_confidence) ==
  ExtractionResult(field_name, normalized_value, final_confidence,
                   determine_quality_level(final_confidence), best.method,
                   best.method = "fallback_pattern", errors,
                   get_normalization_applied(field_name, best.value, normalized_value))

\* VSS_EnhancedExtractor._calculate_overall_score, in thousandths
calculate_overall_score(result) ==
  result.confidence_score * 4
    + (IF Truthy(result.extracted_value) THEN 300 ELSE 0)
    + Max(0, 10 - Len(result.validation_errors) * 2) * 20
    + (IF ~result.fallback_used THEN 80 ELSE 40)

\* VSS_EnhancedExtractor._calculate_quality_metrics
calculate_quality_metrics(result) ==
  [confidence_score |-> result.confidence_score,
   quality_level |-> result.quality_level,
   extraction_method |-> result.extraction_method,
   fallback_used |-> result.fallback_used,
   validation_error_count |-> Len(result.validation_errors),
   normalization_steps |-> Len(result.normalization_applied),
   data_completeness |-> IF Truthy(result.extracted_value) THEN 1 ELSE 0,
   overall_score |-> calculate_overall_score(result)]

\* the fields of extracted_fields, in insertion order
FieldsOf(extracted_fields) ==
  SelectSeq(FieldOrder, LAMBDA f : f \in DOMAIN extracted_fields)

\* a variant in which every field counts as extracted
EveryField(extracted_fields) == FieldsOf(extracted_fields)

\* the fields of extracted_fields whose extracted_value is true
ValuedFields(extracted_fields) ==
  SelectSeq(FieldsOf(extracted_fields),
            LAMBDA f : Truthy(extracted_fields[f].extracted_value))

\* VSS_EnhancedExtractor._perform_cross_validation
perform_cross_validation(extracted_fields, input_data) ==
  LET valued == ValuedFields(extracted_fields)
      check(f) == validate_field_consistency(f, extracted_fields[f].extracted_value,
                                             input_data)
      consistent == SelectSeq(valued, LAMBDA f : check(f).is_consistent)
      inconsistent == SelectSeq(valued, LAMBDA f : ~check(f).is_consistent)
  IN [field_validations |-> [f \in Range(valued) |-> check(f)],
      overall_consistency |-> [num |-> IF valued = <<>> THEN 0 ELSE Len(consistent),
                               den |-> IF valued = <<>> THEN 1 ELSE Len(valued)],
      inconsistencies |-> inconsistent]

\* VSS_EnhancedExtractor._generate_extraction_summary (rates as fractions;
\* quality_score = (high * 1.0 + moderate * 0.5) / total, compared in twentieths)
generate_extraction_summary(extracted_fields) ==
  LET all == FieldsOf(extracted_fields)
      valued == ValuedFields(extracted_fields)
      total_fields == Len(all)
      high == Len(SelectSeq(valued, LAMBDA f :
                    extracted_fields[f].quality_level \in {"excellent", "good"}))
      moderate == Len(SelectSeq(valued, LAMBDA f :
                    extracted_fields[f].quality_level = "moderate"))
      twice == 2 * high + moderate
  IN [total_fields |-> total_fields,
      successful_extractions |-> Len(valued),
      failed_extractions |-> total_fields - Len(valued),
      success_rate |-> [num |-> Len(valued), den |-> Max(total_fields, 1)],
      high_quality_count |-> high,
      moderate_quality_count |-> moderate,
      overall_quality_score |-> [num |-> twice, den |-> 2 * Max(total_fields, 1)],
      status |-> IF total_fields = 0 THEN "poor"
                 ELSE IF twice * 10 > 16 * total_fields THEN "excellent"
                 ELSE IF twice * 10 > 12 * total_fields THEN "good"
                 ELSE IF twice * 10 > 6 * total_fields THEN "moderate"
                 ELSE "poor"]

(***************************************************************************)
(* The inputs of a call                                                    *)
(***************************************************************************)
\* what pattern1 finds in "Binh - Vo7 - 1987"
MatchBinh ==
  [name |-> <<"B","i","n","h">>, relationship |-> <<"V","o7">>,
   birth_year |-> <<"1","9","8","7">>]

NoMatches ==
  [tr |-> <<>>, json |-> <<>>, p1 |-> <<>>, p2 |-> <<>>, p3 |-> <<>>, delim |-> <<>>]

Piece(text, matches) ==
  [text |-> text, tr |-> matches.tr, json |-> matches.json, p1 |-> matches.p1,
   p2 |-> matches.p2, p3 |-> matches.p3, delim |-> matches.delim]

\* the candidate strings a strategy can return for a field: the first is well
\* formed, the second is not
SampleA(field_name) ==
  CASE field_name = "so_dien_thoai" ->
         Str(<<"+","8","4"," ","9","1","2"," ","3","4","5"," ","6","7","8">>)
    [] field_name = "thu_nhap" -> Str(<<"1","8"," ","t","r","i","e6","u">>)
    [] field_name = "ngan_hang" -> Str(<<"V","C","B">>)
    [] field_name = "ma_ho_gia_dinh" ->
         Str(<<"h","g","d","1","2","3","4","5","6","7","8","9">>)
    [] field_name = "thong_tin_thanh_vien" ->
         MText(<<Piece(<<"B","i","n","h"," ","-"," ","V","o7"," ","-"," ","1","9","8","7">>,
                       [NoMatches EXCEPT !.p1 = <<MatchBinh>>])>>)

SampleB(field_name) ==
  CASE field_name = "so_dien_thoai" -> Str(<<"a","b","c">>)
    [] field_name = "thu_nhap" -> Str(<<"5","0">>)
    [] field_name = "ngan_hang" -> Str(<<"m","y"," ","b","a","n","k">>)
    [] field_name = "ma_ho_gia_dinh" -> Str(<<"H","G","-","1">>)
    [] field_name = "thong_tin_thanh_vien" ->
         MText(<<Piece(<<"K","h","o","n","g"," ","c","o">>, NoMatches)>>)

\* what the XPath simulation finds: for the income an amount in billions
SampleC(field_name) ==
  IF field_name = "thu_nhap" THEN Str(<<"2"," ","t","y3">>) ELSE SampleA(field_name)

StrategyNames == {"css", "regex", "context", "xpath", "fallback"}

\* what the five strategies find for one field in a document
Outcomes(field_name) ==
  [css : {None, SampleA(field_name), SampleB(field_name)},
   regex : {None, SampleB(field_name)},
   context : {None, SampleA(field_name)},
   xpath : {None, SampleC(field_name)},
   fallback : {None, SampleA(field_name)}]

NothingFound ==
  [css |-> None, regex |-> None, context |-> None, xpath |-> None, fallback |-> None]

\* the fields of a document other than the one under study
DefaultOutcome(field_name) ==
  CASE field_name = "so_dien_thoai" -> [NothingFound EXCEPT !.css = SampleA(field_name)]
    [] field_name = "thu_nhap" -> NothingFound
    [] field_name = "ngan_hang" ->
         [NothingFound EXCEPT !.regex = SampleA(field_name), !.xpath = SampleB(field_name)]
    [] field_name = "ma_ho_gia_dinh" -> [NothingFound EXCEPT !.fallback = SampleA(field_name)]
    [] field_name = "thong_tin_thanh_vien" ->
         [NothingFound EXCEPT !.css = SampleB(field_name), !.context = SampleA(field_name)]

\* a document, as what the strategies find in it for each field: one field
\* takes every combination of outcomes, the others their default
Document(focus_field, outcome) ==
  [kind |-> "html",
   found |-> [f \in Fields |-> IF f = focus_field THEN outcome ELSE DefaultOutcome(f)]]

\* a document in which the strategies find something for one field only
SparseDocument(focus_field, outcome) ==
  [kind |-> "html",
   found |-> [f \in Fields |-> IF f = focus_field THEN outcome ELSE NothingFound]]

\* a reference record that agrees with the well-formed samples
ReferenceA ==
  Dict([k \in {"phone", "income", "bank", "household_code"} |->
          CASE k = "phone" -> Str(<<"0","9","1","2","3","4","5","6","7","8">>)
            [] k = "income" -> Num(18000000)
            [] k = "bank" -> Str(<<"V","C","B">>)
            [] k = "household_code" ->
                 Str(<<"H","G","D","1","2","3","4","5","6","7","8","9">>)])

\* a reference record under other keys, with other values
ReferenceB ==
  Dict([k \in {"sdt", "salary", "hgd", "family"} |->
          CASE k = "sdt" -> Str(<<"0","9","8","7","6","5","4","3","2","1">>)
            [] k = "salary" -> Str(<<"1",",","0","0","0",",","0","0","0">>)
            [] k = "hgd" -> Str(<<"H","G","-","1">>)
            [] k = "family" -> Str(<<"B","i","n","h">>)])

InputData == {None, ReferenceA, ReferenceB}

(***************************************************************************)
(* _extract_single_field as a function, when nothing raises unexpectedly   *)
(***************************************************************************)
\* the confidence an attempt of each strategy enters extraction_attempts with
AttemptBase(strategy) ==
  CASE strategy = "css" -> 9
    [] strategy = "regex" -> 8
    [] strategy = "context" -> 7
    [] strategy = "xpath" -> 8
    [] strategy = "fallback" -> 5

MethodName(strategy) ==
  CASE strategy = "css" -> "css_selector"
    [] strategy = "regex" -> "regex_pattern"
    [] strategy = "context" -> "context_search"
    [] strategy = "xpath" -> "xpath_simulation"
    [] strategy = "fallback" -> "fallback_pattern"

\* extraction_attempts after the strategies named in order have run
RECURSIVE CollectAttempts(_, _)
CollectAttempts(found, order) ==
  IF order = <<>> THEN <<>>
  ELSE (IF Truthy(found[Head(order)])
        THEN <<Attempt(MethodName(Head(order)), found[Head(order)],
                       AttemptBase(Head(order)))>>
        ELSE <<>>)
       \o CollectAttempts(found, Tail(order))

\* the only element of a set of one element
TheOne(S) == CHOOSE x \in S : TRUE

\* extraction_attempts after the five strategies
all_attempts(found) ==
  LET main == CollectAttempts(found, <<"css", "regex", "context", "xpath">>)
  IN IF main = <<>> THEN CollectAttempts(found, <<"fallback">>) ELSE main

\* VSS_EnhancedExtractor._extract_single_field where nothing raises
\* unexpectedly (no validator raises on a value its own normaliser returned,
\* so the handler of _validate_field_value is not entered here); the locals
\* extraction_attempts, best, normalized_value and validation_result are
\* bound as the elements of the sets of their values
extract_single_field(found, field_name, input_data) ==
  TheOne(UNION UNION UNION
    { { { { IF extraction_attempts = <<>>
            THEN create_failed_extraction_result(field_name,
                                                 "No extraction pattern matched")
            ELSE IF validation_result.raised
            THEN create_failed_extraction_result(
                   field_name, "Extraction error: " \o validation_result.msg)
            ELSE build_extraction_result(
                   field_name, best, normalized_value, validation_result.errors,
                   calculate_confidence_score(best.base, validation_result.errors,
                                              best.method)) :
            validation_result \in
              {IF extraction_attempts = <<>> THEN None
               ELSE validate_field_value(field_name, normalized_value, input_data,
                                         FALSE, TRUE)} } :
          normalized_value \in
            {IF extraction_attempts = <<>> THEN None
             ELSE normalize_field_value(field_name, best.value, FALSE)} } :
        best \in
          {IF extraction_attempts = <<>> THEN None
           ELSE select_best_extraction_result(field_name, extraction_attempts)} } :
      extraction_attempts \in {all_attempts(found)} })

(***************************************************************************)
(* The state of one engine and of the call it is running                   *)
(***************************************************************************)
VARIABLES
  pc,                  \* "idle", "extract", "cross", "summary", "done"
  importable,          \* "yes" or "no": a top-level package config is on sys.path;
                       \* "untried" until the first import of it
  html_content,        \* the document of the call
  input_data,          \* the reference record of the call, or None
  focus,               \* the field of the document under study
  field_idx,           \* position of the loop over field_patterns.keys()
  step,                \* position inside _extract_single_field
  extraction_attempts, \* local of _extract_single_field
  best,                \* (best_method, best_value, base_confidence)
  normalized_value,    \* local of _extract_single_field
  validation_result,   \* local of _extract_single_field
  final_confidence,    \* local of _extract_single_field
  field_result,        \* what _extract_single_field returns
  extracted_fields,    \* extraction_results['extracted_fields']
  quality_metrics,     \* extraction_results['quality_metrics']
  cross_validation,    \* extraction_results['cross_validation']
  extraction_summary,  \* extraction_results['extraction_summary']
  response,            \* "none", "results" or "error": what the call returned
  ran,                 \* the strategies the current field has called
  phases,              \* per field, the steps its extraction went through
  faults,              \* unexpected exceptions raised so far
  faulted              \* the steps of the field under study that raised

call_vars == <<importable, html_content, input_data, focus>>

local_vars ==
  <<extraction_attempts, best, normalized_value, validation_result, final_confidence>>

result_vars == <<extracted_fields, quality_metrics, cross_validation, extraction_summary>>

(***************************************************************************)
(* The state shared by the engines of a process, and the calls in progress *)
(***************************************************************************)
VARIABLES
  now,                \* the clock that datetime.now() reads
  _normalizers,       \* NormalizerFactory._normalizers, an attribute of the class
  _validators,        \* ValidatorFactory._validators, an attribute of the class
  engines,            \* the attributes of each VSS_EnhancedExtractor instance
  calls,              \* the calls of extract_enhanced_fields in progress
  factory_call,       \* the last call of a method of the factories, and its outcome
  normalizer_called,  \* the class of the normaliser last called on its own
  raw_candidate,      \* the raw candidate it was called with
  normalize_returned, \* what its normalize returned
  validate_returned,  \* what the validator of the field returned for that, if called
  source_text,        \* the text the candidate was captured from, if any
  cross_call,         \* the call of the cross-validator made on its own, if any
  cross_returned,     \* what validate_field_consistency returned for it
  selector_call,      \* the call of extract_by_css_selectors made on its own, if any
  selector_returned   \* what it returned

engine_vars == <<now, _normalizers, _validators, engines, calls>>

factory_vars == <<factory_call>>

pure_vars ==
  <<normalizer_called, raw_candidate, normalize_returned, validate_returned, source_text>>

cross_vars == <<cross_call, cross_returned>>

selector_vars == <<selector_call, selector_returned>>

other_vars == <<engine_vars, factory_vars, pure_vars, cross_vars, selector_vars>>

main_vars ==
  <<pc, importable, html_content, input_data, focus, field_idx, step,
    extraction_attempts, best, normalized_value, validation_result, final_confidence,
    field_result, extracted_fields, quality_metrics, cross_validation,
    extraction_summary, response, ran, phases, faults, faulted>>

EngineIds == {1, 2}

CallIds == {1, 2}

\* NormalizerFactory._normalizers as the module is loaded
DefaultNormalizers ==
  [f \in Fields |->
     CASE f = "so_dien_thoai" -> "PhoneNormalizer"
       [] f = "thu_nhap" -> "IncomeNormalizer"
       [] f = "ngan_hang" -> "BankNormalizer"
       [] f = "ma_ho_gia_dinh" -> "HouseholdCodeNormalizer"
       [] f = "thong_tin_thanh_vien" -> "MemberInfoNormalizer"]

\* ValidatorFactory._validators as the module is loaded
DefaultValidators ==
  [f \in Fields |->
     CASE f = "so_dien_thoai" -> "PhoneValidator"
       [] f = "thu_nhap" -> "IncomeValidator"
       [] f = "ngan_hang" -> "BankValidator"
       [] f = "ma_ho_gia_dinh" -> "HouseholdCodeValidator"
       [] f = "thong_tin_thanh_vien" -> "MemberInfoValidator"]

\* the attributes that VSS_EnhancedExtractor.__init__ sets beside the
\* factories, the patterns and the maps
NewEngine == [extraction_results |-> <<>>, quality_metrics |-> <<>>]

IdleCall ==
  [status |-> "idle", engine |-> 0, html_content |-> None, input_data |-> None,
   field_idx |-> 0, extracted_fields |-> <<>>]

InitOthers ==
  /\ now = 0
  /\ _normalizers = DefaultNormalizers
  /\ _validators = DefaultValidators
  /\ engines = [e \in EngineIds |-> NewEngine]
  /\ calls = [c \in CallIds |-> IdleCall]
  /\ factory_call = None
  /\ normalizer_called = ""
  /\ raw_candidate = None
  /\ normalize_returned = None
  /\ validate_returned = None
  /\ source_text = None
  /\ cross_call = None
  /\ cross_returned = None
  /\ selector_call = None
  /\ selector_returned = None

vars == <<main_vars, other_vars>>

EmptyDict == [k \in {} |-> None]

Init ==
  /\ pc = "idle"
  /\ importable = "untried"
  /\ html_content = None
  /\ input_data = None
  /\ focus = ""
  /\ field_idx = 0
  /\ step = "none"
  /\ extraction_attempts = <<>>
  /\ best = None
  /\ normalized_value = None
  /\ validation_result = None
  /\ final_confidence = 0
  /\ field_result = None
  /\ extracted_fields = EmptyDict
  /\ quality_metrics = EmptyDict
  /\ cross_validation = None
  /\ extraction_summary = None
  /\ response = "none"
  /\ ran = {}
  /\ phases = [f \in Fields |-> <<"NotAttempted">>]
  /\ faults = 0
  /\ faulted = {}
  /\ InitOthers

field_name == FieldOrder[field_idx]

\* an unexpected exception may be raised in the field under study, in a
\* document that holds the other fields too
CanFault ==
  /\ faults < MaxFaults
  /\ field_name = focus
  /\ \E f \in Fields \ {focus} : html_content.found[f] # NothingFound

Phase(p) == phases' = [phases EXCEPT ![field_name] = Append(@, p)]

\* extract_enhanced_fields is called with a document and a reference record
ExtractEnhancedFields ==
  /\ pc = "idle"
  /\ \E f \in Fields, data \in InputData :
       \E outcome \in Outcomes(f) :
         /\ html_content' \in {Document(f, outcome), SparseDocument(f, outcome)}
         /\ input_data' = data
         /\ focus' = f
  /\ pc' = "extract"
  /\ field_idx' = 1
  /\ step' = "css"
  /\ UNCHANGED <<other_vars, importable, local_vars, field_result, result_vars, response, ran,
                 phases, faults, faulted>>

\* extract_enhanced_fields is called with a document that is no str: the
\* parser raises and the call returns _create_error_response
ExtractEnhancedFieldsError ==
  /\ pc = "idle"
  /\ html_content' = [kind |-> "not_a_str"]
  /\ \E data \in InputData : input_data' = data
  /\ pc' = "done"
  /\ response' = "error"
  /\ UNCHANGED <<other_vars, importable, focus, field_idx, step, local_vars, field_result,
                 result_vars, ran, phases, faults, faulted>>

\* the except clause of _extract_single_field
CaughtAtFieldBoundary(message) ==
  /\ field_result' = create_failed_extraction_result(field_name, "Extraction error: " \o message)
  /\ step' = "store"
  /\ Phase("Failed")

Fault(at) ==
  /\ CanFault
  /\ faults' = faults + 1
  /\ faulted' = faulted \cup {at}

NoFault == UNCHANGED <<faults, faulted>>

\* one of the strategy calls of _extract_single_field and the "if result:"
\* that follows it
StrategyStep(strategy, next) ==
  /\ pc = "extract"
  /\ step = strategy
  /\ ran' = ran \cup {strategy}
  /\ \/ /\ NoFault
        /\ LET result == html_content.found[field_name][strategy]
           IN extraction_attempts' =
                IF Truthy(result)
                THEN Append(extraction_attempts,
                            Attempt(MethodName(strategy), result, AttemptBase(strategy)))
                ELSE extraction_attempts
        /\ step' = next
        /\ UNCHANGED <<field_result, phases>>
     \/ /\ Fault(strategy)
        /\ CaughtAtFieldBoundary("fault")
        /\ UNCHANGED extraction_attempts
  /\ UNCHANGED <<other_vars, pc, call_vars, field_idx, best, normalized_value, validation_result,
                 final_confidence, result_vars, response>>

\* Strategy 1: CSS selectors
ExtractByCssSelectors == StrategyStep("css", "regex")

\* Strategy 2: regex patterns
ExtractByRegex == StrategyStep("regex", "context")

\* Strategy 3: context-based search
ExtractByContext == StrategyStep("context", "xpath")

\* Strategy 4: XPath selectors (simulated)
ExtractByXpathSimulation == StrategyStep("xpath", "fallback")

\* a variant of the test in which the fallback is always called
AlwaysFallback(attempts) == TRUE

\* "if not extraction_attempts:" before Strategy 5
FallbackNeeded(attempts) == attempts = <<>>

\* Strategy 5: fallback patterns, under "if not extraction_attempts:"
ExtractByFallback ==
  /\ FallbackNeeded(extraction_attempts)
  /\ StrategyStep("fallback", "select")

\* "if not extraction_attempts:" is false: the fallback is not called
SkipFallback ==
  /\ pc = "extract"
  /\ step = "fallback"
  /\ ~FallbackNeeded(extraction_attempts)
  /\ step' = "select"
  /\ UNCHANGED <<other_vars, pc, call_vars, field_idx, local_vars, field_result, result_vars,
                 response, ran, phases, faults, faulted>>

\* "if extraction_attempts:" is true: _select_best_extraction_result
SelectBest ==
  /\ pc = "extract"
  /\ step = "select"
  /\ extraction_attempts # <<>>
  /\ \/ /\ NoFault
        /\ best' = select_best_extraction_result(field_name, extraction_attempts)
        /\ step' = "normalize"
        /\ Phase("CandidateFound")
        /\ UNCHANGED field_result
     \/ /\ Fault("select")
        /\ CaughtAtFieldBoundary("fault")
        /\ UNCHANGED best
  /\ UNCHANGED <<other_vars, pc, call_vars, field_idx, extraction_attempts, normalized_value,
                 validation_result, final_confidence, result_vars, response, ran>>

\* "if extraction_attempts:" is false: no extraction successful
NoExtraction ==
  /\ pc = "extract"
  /\ step = "select"
  /\ extraction_attempts = <<>>
  /\ field_result' =
       create_failed_extraction_result(field_name, "No extraction pattern matched")
  /\ step' = "store"
  /\ Phase("Failed")
  /\ UNCHANGED <<other_vars, pc, call_vars, field_idx, local_vars, result_vars, response, ran,
                 faults, faulted>>

\* the value handed to _normalize_field_value
NormalizationInput(best_value, attempts) == best_value

\* normalized_value = self._normalize_field_value(field_name, best_value)
NormalizeResult ==
  /\ pc = "extract"
  /\ step = "normalize"
  /\ \E raises \in BOOLEAN :
       /\ IF raises THEN Fault("normalize") ELSE NoFault
       /\ normalized_value' =
            normalize_field_value(
              field_name, NormalizationInput(best.value, extraction_attempts), raises)
  /\ step' = "validate"
  /\ Phase("Normalized")
  /\ UNCHANGED <<other_vars, pc, call_vars, field_idx, extraction_attempts, best, validation_result,
                 final_confidence, field_result, result_vars, response, ran>>

\* a variant in which the validator is handed the winning candidate as found
RawValidationInput(best_value, normalized) == best_value

\* the value handed to _validate_field_value
ValidationInput(best_value, normalized) == normalized

\* validation_result = self._validate_field_value(field_name, normalized_value, input_data)
ValidateResult ==
  /\ pc = "extract"
  /\ step = "validate"
  /\ \E raises \in BOOLEAN, found \in BOOLEAN :
       /\ IF raises THEN Fault("validate") ELSE NoFault
       /\ IF raises \/ Validator(field_name, normalized_value).raised
          THEN importable \in {"untried", IF found THEN "yes" ELSE "no"}
               /\ importable' = IF found THEN "yes" ELSE "no"
          ELSE found /\ UNCHANGED importable
       /\ LET result == validate_field_value(
                          field_name, ValidationInput(best.value, normalized_value),
                          input_data, raises, found)
          IN IF result.raised
             THEN /\ CaughtAtFieldBoundary(result.msg)
                  /\ UNCHANGED validation_result
             ELSE /\ validation_result' = result
                  /\ step' = "score"
                  /\ Phase("Validated")
                  /\ UNCHANGED field_result
  /\ UNCHANGED <<other_vars, pc, html_content, input_data, focus, field_idx, extraction_attempts,
                 best, normalized_value, final_confidence, result_vars, response, ran>>

\* the errors handed to calculate_confidence_score
ScoringInput(validation) == validation.errors

\* final_confidence = self.calculate_confidence_score(...); the method turns an
\* exception of its own into the default confidence 0.5
CalculateConfidence ==
  /\ pc = "extract"
  /\ step = "score"
  /\ \/ /\ NoFault
        /\ final_confidence' =
             calculate_confidence_score(best.base, ScoringInput(validation_result),
                                        best.method)
     \/ /\ Fault("score")
        /\ final_confidence' = 50
  /\ step' = "build"
  /\ Phase("Scored")
  /\ UNCHANGED <<other_vars, pc, call_vars, field_idx, extraction_attempts, best, normalized_value,
                 validation_result, field_result, result_vars, response, ran>>

\* return ExtractionResult(...)
BuildResult ==
  /\ pc = "extract"
  /\ step = "build"
  /\ field_result' =
       build_extraction_result(field_name, best, normalized_value,
                               validation_result.errors, final_confidence)
  /\ step' = "store"
  /\ Phase("Finalized")
  /\ UNCHANGED <<other_vars, pc, call_vars, field_idx, local_vars, result_vars, response, ran,
                 faults, faulted>>

\* a variant of the loop that takes every other field
EveryOtherFieldIndex(i) == i + 2

\* the field whose extraction follows that of the field at position i
NextFieldIndex(i) == i + 1

\* the body of the loop of extract_enhanced_fields after _extract_single_field
\* has returned, and the step of the loop
StoreFieldResult ==
  /\ pc = "extract"
  /\ step = "store"
  /\ extracted_fields' = (field_name :> field_result) @@ extracted_fields
  /\ quality_metrics' =
       (field_name :> calculate_quality_metrics(field_result)) @@ quality_metrics
  /\ IF NextFieldIndex(field_idx) <= Len(FieldOrder)
     THEN /\ field_idx' = NextFieldIndex(field_idx)
          /\ step' = "css"
          /\ pc' = "extract"
     ELSE /\ field_idx' = 0
          /\ step' = "none"
          /\ pc' = "cross"
  /\ extraction_attempts' = <<>>
  /\ best' = None
  /\ normalized_value' = None
  /\ validation_result' = None
  /\ final_confidence' = 0
  /\ field_result' = None
  /\ ran' = {}
  /\ UNCHANGED <<other_vars, call_vars, cross_validation, extraction_summary, response, phases,
                 faults, faulted>>

\* "if input_data:" is true: _perform_cross_validation
PerformCrossValidation ==
  /\ pc = "cross"
  /\ Truthy(input_data)
  /\ cross_validation' = perform_cross_validation(extracted_fields, input_data)
  /\ pc' = "summary"
  /\ UNCHANGED <<other_vars, call_vars, field_idx, step, local_vars, field_result, extracted_fields,
                 quality_metrics, extraction_summary, response, ran, phases, faults,
                 faulted>>

\* "if input_data:" is false
SkipCrossValidation ==
  /\ pc = "cross"
  /\ ~Truthy(input_data)
  /\ pc' = "summary"
  /\ UNCHANGED <<other_vars, call_vars, field_idx, step, local_vars, field_result, result_vars,
                 response, ran, phases, faults, faulted>>

\* _generate_extraction_summary and the return of extraction_results
GenerateSummaryAndReturn ==
  /\ pc = "summary"
  /\ extraction_summary' = generate_extraction_summary(extracted_fields)
  /\ response' = "results"
  /\ pc' = "done"
  /\ UNCHANGED <<other_vars, call_vars, field_idx, step, local_vars, field_result, extracted_fields,
                 quality_metrics, cross_validation, ran, phases, faults, faulted>>

Next ==
  \/ ExtractEnhancedFields
  \/ ExtractEnhancedFieldsError
  \/ ExtractByCssSelectors
  \/ ExtractByRegex
  \/ ExtractByContext
  \/ ExtractByXpathSimulation
  \/ ExtractByFallback
  \/ SkipFallback
  \/ SelectBest
  \/ NoExtraction
  \/ NormalizeResult
  \/ ValidateResult
  \/ CalculateConfidence
  \/ BuildResult
  \/ StoreFieldResult
  \/ PerformCrossValidation
  \/ SkipCrossValidation
  \/ GenerateSummaryAndReturn

Spec == Init /\ [][Next]_vars

(***************************************************************************)
(* Properties of extract_enhanced_fields                                   *)
(***************************************************************************)
\* what the strategies find for field f in the document of the call
Found(f) == html_content.found[f]

\* none of the strategies named finds anything for field f
NothingFrom(f, strategies) == \A s \in strategies : ~Truthy(Found(f)[s])

\* _extract_single_field has returned and its result is not yet stored
Returned == pc = "extract" /\ step = "store"

\* a winner is selected and the extraction of the field is going on
Selected == pc = "extract" /\ step \in {"normalize", "validate", "score", "build"}

\* the ExtractionResult that _extract_single_field has just returned, and the
\* ExtractionResults that the call returns
Results ==
  IF Returned THEN {field_result}
  ELSE IF response = "results" THEN {extracted_fields[f] : f \in DOMAIN extracted_fields}
  ELSE {}

\* the steps of the field under study that raised, none for another field
RaisedIn(f) == IF f = focus THEN faulted ELSE {}

IsFailedResult(r, f, message) ==
  /\ r.field_name = f
  /\ r.extracted_value = None
  /\ r.confidence_score = 0
  /\ r.quality_level = "failed"
  /\ r.validation_errors = <<message>>

\* C1: a call of extract_enhanced_fields that returns results returns exactly
\* one ExtractionResult for each of the five registry fields, whatever the
\* strategies found and whether or not the extraction of a field raised: the
\* result dictionary has the five fields as keys, each entry is the result of
\* its own field, and each field's extraction ended exactly once.
C1_OneResultPerField ==
  response = "results" =>
    /\ DOMAIN extracted_fields = Fields
    /\ Cardinality(Fields) = 5
    /\ \A f \in Fields :
         /\ extracted_fields[f].field_name = f
         /\ Len(SelectSeq(phases[f], LAMBDA p : p \in {"Finalized", "Failed"})) = 1

\* a call has returned results although the extraction of a field raised
C1_Witness ==
  /\ response = "results"
  /\ faulted # {}
  /\ DOMAIN extracted_fields = Fields

\* the confidence an attempt of each method is collected with, in tenths
C2_AttemptConfidence(method) ==
  CASE method = "css_selector" -> 9
    [] method = "regex_pattern" -> 8
    [] method = "context_search" -> 7
    [] method = "xpath_simulation" -> 8
    [] method = "fallback_pattern" -> 5

\* the fixed weight of each strategy kind, in tenths
C2_BaseWeight(method) ==
  CASE method = "css_selector" -> 10
    [] method = "xpath_simulation" -> 9
    [] method = "regex_pattern" -> 9
    [] method = "context_search" -> 8
    [] method = "fallback_pattern" -> 5

C2_Clamp(hundredths) ==
  IF hundredths < 0 THEN 0 ELSE IF hundredths > 100 THEN 100 ELSE hundredths

\* the field whose result has just been returned has a winning candidate
C2_HasWinner == Returned /\ field_result.extraction_method # "none"

\* the data-presence bonus of the winner, in tenths
C2_Bonus ==
  IF field_name = "thong_tin_thanh_vien" /\ Truthy(Normalizer(field_name, best.value))
  THEN 2 ELSE 0

\* C2 (as amended): the final confidence of a field that has a winning
\* candidate is clamp((attemptConfidence - 0.1 * validationErrorCount) *
\* methodWeight, 0, 1), where attemptConfidence is the confidence the winning
\* candidate was collected with (selector 0.9, regex 0.8, context 0.7,
\* path-traversal 0.8, fallback 0.5) plus 0.2 for a member-list winner that
\* normalises to a non-empty list, and methodWeight is the fixed weight of the
\* strategy kind (selector 1.0, path-traversal 0.9, regex 0.9, context 0.8,
\* fallback 0.5); it is 0.5 when the scoring step itself raised.
C2_TwoFactorConfidence ==
  C2_HasWinner =>
    field_result.confidence_score =
      IF "score" \in RaisedIn(field_name) THEN 50
      ELSE C2_Clamp((C2_AttemptConfidence(field_result.extraction_method) + C2_Bonus
                       - Len(field_result.validation_errors))
                    * C2_BaseWeight(field_result.extraction_method))

\* C2 (as stated): the final confidence of a field that has a winning candidate
\* is clamp(baseWeight - 0.1 * validationErrorCount, 0, 1) and no other factor
\* enters the score.
C2_AsStated ==
  C2_HasWinner =>
    field_result.confidence_score =
      C2_Clamp(C2_BaseWeight(field_result.extraction_method) * 10
               - Len(field_result.validation_errors) * 10)

\* a regex candidate has won and its value has validation errors
C2_Witness ==
  /\ C2_HasWinner
  /\ field_result.extraction_method = "regex_pattern"
  /\ Len(field_result.validation_errors) = 2
  /\ field_result.confidence_score = 54

\* C3: in every ExtractionResult, whether it comes from a winning candidate,
\* from no candidate or from a caught exception, the confidence score lies in
\* [0, 1] (0 .. 100 hundredths).
C3_ConfidenceInUnitInterval ==
  \A r \in Results : 0 <= r.confidence_score /\ r.confidence_score <= 100

\* one call holds a result of each kind: a winning candidate, a field with no
\* candidate, a field whose extraction raised
C3_Witness ==
  /\ response = "results"
  /\ \E f \in Fields :
       /\ extracted_fields[f].extraction_method # "none"
       /\ extracted_fields[f].confidence_score > 0
  /\ extracted_fields["thu_nhap"].validation_errors = <<"No extraction pattern matched">>
  /\ \E f \in Fields : extracted_fields[f].validation_errors = <<"Extraction error: fault">>

C4_Tier(confidence) ==
  IF confidence >= 90 THEN "excellent"
  ELSE IF confidence >= 70 THEN "good"
  ELSE IF confidence >= 50 THEN "moderate"
  ELSE IF confidence > 0 THEN "poor"
  ELSE "failed"

C4_Rank(tier) ==
  CASE tier = "failed" -> 0
    [] tier = "poor" -> 1
    [] tier = "moderate" -> 2
    [] tier = "good" -> 3
    [] tier = "excellent" -> 4

\* C4: in every ExtractionResult the quality tier is the threshold function of
\* the result's confidence (>= 0.9 excellent, >= 0.7 good, >= 0.5 moderate,
\* > 0 poor, = 0 failed); a result of smaller confidence never has a higher
\* tier, and determine_quality_level is monotonic over the hundredths of [0, 1].
C4_TierIsThresholdOfConfidence ==
  /\ \A r \in Results : r.quality_level = C4_Tier(r.confidence_score)
  /\ \A r1, r2 \in Results :
       r1.confidence_score < r2.confidence_score =>
         C4_Rank(r1.quality_level) <= C4_Rank(r2.quality_level)
  /\ pc = "done" =>
       \A c \in 0 .. 99 :
         C4_Rank(determine_quality_level(c)) <= C4_Rank(determine_quality_level(c + 1))

\* one call holds results of four tiers
C4_Witness ==
  /\ response = "results"
  /\ {"excellent", "good", "poor", "failed"}
       \subseteq {extracted_fields[f].quality_level : f \in Fields}

C5_Chain ==
  <<"NotAttempted", "CandidateFound", "Normalized", "Validated", "Scored", "Finalized">>

IsPrefix(s, t) == Len(s) <= Len(t) /\ SubSeq(t, 1, Len(s)) = s

\* the steps of a trail but a closing "Failed"
C5_Progress(trail) ==
  IF trail[Len(trail)] = "Failed" THEN SubSeq(trail, 1, Len(trail) - 1) ELSE trail

\* C5: for every field the steps happen in the order NotAttempted ->
\* (CandidateFound | Failed) -> Normalized -> Validated -> Scored -> Finalized;
\* where nothing raised, Failed follows NotAttempted directly and only when no
\* candidate was found, so that such a field is never normalised, validated or
\* scored; the normalised value is that of the winning candidate, validation
\* is applied to that normalised value, and scoring uses the errors of that
\* validation.
C5_StepsInOrder ==
  /\ \A f \in Fields :
       /\ IsPrefix(C5_Progress(phases[f]), C5_Chain)
       /\ "Failed" \notin Range(C5_Progress(phases[f]))
       /\ RaisedIn(f) = {} =>
            \/ IsPrefix(phases[f], C5_Chain)
            \/ /\ phases[f] = <<"NotAttempted", "Failed">>
               /\ NothingFrom(f, StrategyNames)
  /\ (Selected /\ step # "normalize") =>
       normalized_value =
         IF "normalize" \in RaisedIn(field_name) THEN best.value
         ELSE Normalizer(field_name, best.value)
  /\ (Selected /\ step \in {"score", "build"} /\ "validate" \notin RaisedIn(field_name)) =>
       validation_result =
         validate_field_value(field_name, normalized_value, input_data, FALSE,
                              importable # "no")
  /\ (Selected /\ step = "build" /\ "score" \notin RaisedIn(field_name)) =>
       final_confidence =
         calculate_confidence_score(best.base, validation_result.errors, best.method)

\* one field went through every step, its normalised value differing from the
\* candidate found and having validation errors, and another failed for want
\* of a candidate
C5_Witness ==
  /\ response = "results"
  /\ \E f \in Fields :
       /\ phases[f] = C5_Chain
       /\ extracted_fields[f].normalization_applied # <<>>
       /\ extracted_fields[f].validation_errors # <<>>
  /\ phases["thu_nhap"] = <<"NotAttempted", "Failed">>

C6_Main == {"css", "regex", "context", "xpath"}

\* C6: the fallback strategy is executed if and only if strategies 1-4 all
\* returned nothing; a fallback candidate is the only candidate of its field;
\* and fallback_used is true exactly when the winning method is the fallback.
C6_FallbackOnlyWhenNothingElse ==
  /\ (pc = "extract" /\ step \in {"select", "normalize", "validate", "score", "build"}) =>
       ("fallback" \in ran <=> NothingFrom(field_name, C6_Main))
  /\ (Returned /\ "fallback" \in ran) => NothingFrom(field_name, C6_Main)
  /\ \A i \in 1 .. Len(extraction_attempts) :
       extraction_attempts[i].method = "fallback_pattern" => Len(extraction_attempts) = 1
  /\ \A r \in Results : r.fallback_used <=> r.extraction_method = "fallback_pattern"

\* the fallback has run, strategies 1-4 having found nothing, and its
\* candidate is the winner
C6_Witness ==
  /\ Selected
  /\ "fallback" \in ran
  /\ best.method = "fallback_pattern"
  /\ field_name = focus

\* C7: a field for which no strategy, the fallback included, yields a
\* candidate gets a result with null value, confidence 0, tier failed and
\* exactly one validation error, "No extraction pattern matched"; the call
\* goes on and returns results.
C7_NoCandidateFailsQuietly ==
  /\ \A f \in DOMAIN extracted_fields :
       (NothingFrom(f, StrategyNames) /\ RaisedIn(f) = {}) =>
         /\ IsFailedResult(extracted_fields[f], f, "No extraction pattern matched")
         /\ extracted_fields[f].extraction_method = "none"
         /\ ~extracted_fields[f].fallback_used
  /\ (pc = "done" /\ html_content.kind = "html") => response = "results"

\* the field under study had no candidate and the call returned results
C7_Witness ==
  /\ response = "results"
  /\ focus = "ngan_hang"
  /\ NothingFrom(focus, StrategyNames)
  /\ faulted = {}
  /\ IsFailedResult(extracted_fields[focus], focus, "No extraction pattern matched")

\* strategies 1-4 in their fixed order
C8_Order == <<"css", "regex", "context", "xpath">>

\* the base weight of each of them, in tenths
C8_BaseWeight(strategy) ==
  CASE strategy = "css" -> 10
    [] strategy = "regex" -> 9
    [] strategy = "context" -> 8
    [] strategy = "xpath" -> 9

\* the strategies among 1-4 that returned a candidate for field f, in order
C8_Candidates(f) == SelectSeq(C8_Order, LAMBDA s : Truthy(Found(f)[s]))

\* C8: for every field other than the member list, the winner is, among the
\* candidates of strategies 1-4, one of the highest base weight, and no
\* candidate of an earlier strategy has the same weight.
C8_HighestWeightEarliestWins ==
  (Selected /\ field_name # "thong_tin_thanh_vien" /\ C8_Candidates(field_name) # <<>>) =>
    LET cands == C8_Candidates(field_name)
    IN \E i \in 1 .. Len(cands) :
         /\ best.method = MethodName(cands[i])
         /\ best.value = Found(field_name)[cands[i]]
         /\ \A j \in 1 .. Len(cands) :
              /\ C8_BaseWeight(cands[j]) <= C8_BaseWeight(cands[i])
              /\ j < i => C8_BaseWeight(cands[j]) < C8_BaseWeight(cands[i])

\* regex and path-traversal both returned a candidate, of equal weight, the
\* selector none, and the regex candidate has won
C8_Witness ==
  /\ Selected
  /\ field_name # "thong_tin_thanh_vien"
  /\ ~Truthy(Found(field_name)["css"])
  /\ Truthy(Found(field_name)["regex"])
  /\ Truthy(Found(field_name)["xpath"])
  /\ Found(field_name)["regex"] # Found(field_name)["xpath"]
  /\ best.method = "regex_pattern"

\* the candidate of an attempt normalises to a non-empty member list
C9_HasData(attempt) ==
  LET normalized == MemberInfoNormalizer_normalize(attempt.value)
  IN normalized.kind = "members" /\ normalized.list # <<>>

\* C9: for the member list, when at least one candidate normalises to a
\* non-empty list the winner is one of those and has the highest
\* baseWeight + 0.2 among them; when none does, the winner is the candidate of
\* the highest base weight.  A candidate that normalises to an empty list
\* never wins over one that normalises to a non-empty list.
C9_MemberListPrefersData ==
  (Selected /\ field_name = "thong_tin_thanh_vien") =>
    LET withData == {i \in 1 .. Len(extraction_attempts) :
                       C9_HasData(extraction_attempts[i])}
        pool == IF withData # {} THEN withData ELSE 1 .. Len(extraction_attempts)
        bonus == IF withData # {} THEN data_quality_bonus ELSE 0
    IN \E i \in pool :
         /\ best.method = extraction_attempts[i].method
         /\ best.value = extraction_attempts[i].value
         /\ \A j \in pool :
              METHOD_WEIGHTS(extraction_attempts[j].method) + bonus
                <= METHOD_WEIGHTS(extraction_attempts[i].method) + bonus

\* the selector candidate normalises to an empty list, the context candidate
\* to a non-empty one, and the context candidate has won
C9_Witness ==
  /\ Selected
  /\ field_name = "thong_tin_thanh_vien"
  /\ \E i \in 1 .. Len(extraction_attempts) :
       /\ extraction_attempts[i].method = "css_selector"
       /\ ~C9_HasData(extraction_attempts[i])
  /\ best.method = "context_search"
  /\ C9_HasData(best)

C10_Early == {"css", "regex", "context", "xpath", "fallback", "select"}

\* what the extraction of the field under study returns after a step of it
\* raised
C10_FaultyFieldResult ==
  LET r == field_result
  IN IF faulted \cap C10_Early # {}
     THEN IsFailedResult(r, focus, "Extraction error: fault")
     ELSE
       LET value == IF "normalize" \in faulted THEN best.value
                    ELSE Normalizer(focus, best.value)
           natural == Validator(focus, value)
           validatorRaised == "validate" \in faulted \/ natural.raised
           message == IF "validate" \in faulted THEN "fault" ELSE natural.msg
       IN IF validatorRaised /\ importable = "no"
          THEN IsFailedResult(r, focus, "Extraction error: No module named 'config'")
          ELSE /\ r.extracted_value = value
               /\ r.extraction_method = best.method
               /\ validatorRaised => r.validation_errors = <<"Validation error: " \o message>>
               /\ "score" \in faulted => r.confidence_score = 50
               /\ r.quality_level = C4_Tier(r.confidence_score)

\* the results of the fields in which nothing raised are those of an
\* extraction without exceptions
C10_OthersUnaffected ==
  (pc = "done" /\ response = "results") =>
    \A f \in Fields :
      RaisedIn(f) = {} =>
        extracted_fields[f] = extract_single_field(Found(f), f, input_data)

\* C10 (as amended): an exception of a strategy or of the arbitration makes
\* the field's result a failed ExtractionResult whose only validation error is
\* "Extraction error: " and the message; an exception of the normaliser is
\* absorbed, the candidate as found being used as the normalised value; an
\* exception of the validator gives the single validation error
\* "Validation error: " and the message on a result that keeps its value,
\* unless the handler cannot import config.data_models, and then the result is
\* a failed ExtractionResult with the import error's message; an exception in
\* scoring gives the confidence 0.5.  The results of the other four fields are
\* the same as when no exception occurs.
C10_ExceptionsPerStep ==
  /\ (Returned /\ field_name = focus /\ faulted # {}) => C10_FaultyFieldResult
  /\ C10_OthersUnaffected

\* C10 (as stated): an exception in any step of a field's extraction makes the
\* field's result a failed ExtractionResult (null value, confidence 0) whose
\* validation errors contain the exception message, the other four fields
\* being unaffected.
C10_AsStated ==
  /\ (Returned /\ field_name = focus /\ faulted # {}) =>
       /\ field_result.extracted_value = None
       /\ field_result.confidence_score = 0
       /\ field_result.quality_level = "failed"
       /\ \E i \in 1 .. Len(field_result.validation_errors) :
            field_result.validation_errors[i]
              \in {"Extraction error: fault", "Validation error: fault"}
  /\ C10_OthersUnaffected

\* the validator raised in a field, the handler could not import
\* config.data_models, and the call returned results
C10_Witness ==
  /\ response = "results"
  /\ "validate" \in faulted
  /\ importable = "no"
  /\ IsFailedResult(extracted_fields[focus], focus,
                    "Extraction error: No module named 'config'")

\* the result of the call for the phone field holds a valid phone, and nothing
\* was found for the income field
C11_ValidPhoneNoIncome ==
  /\ response = "results"
  /\ RaisedIn("so_dien_thoai") = {} /\ RaisedIn("thu_nhap") = {}
  /\ NothingFrom("thu_nhap", StrategyNames)
  /\ extracted_fields["so_dien_thoai"].extracted_value.kind = "str"
  /\ MatchesVietnamPhone(extracted_fields["so_dien_thoai"].extracted_value.s)

\* the phone is the only field of the call for which a value is found
C11_PhoneOnly ==
  /\ response = "results"
  /\ \A f \in Fields :
       Truthy(extracted_fields[f].extracted_value) <=> f = "so_dien_thoai"

C11_TierByMethod(method) ==
  CASE method = "css_selector" -> "excellent"
    [] method = "regex_pattern" -> "good"
    [] method = "xpath_simulation" -> "good"
    [] method = "context_search" -> "moderate"
    [] method = "fallback_pattern" -> "poor"

\* C11 (as amended): in one call, a document with a valid phone and no
\* income-related text yields tier failed for income and a tier other than
\* failed for phone, which for a phone without validation errors is excellent
\* when the selector strategy wins, good for regex or path-traversal, moderate
\* for the context search and poor for the fallback; and when the phone is the
\* only field for which a value is found, the summary reports 1 successful
\* extraction out of 5, successRate 1/5.
C11_PartialFailureIsolation ==
  /\ C11_ValidPhoneNoIncome =>
       /\ extracted_fields["thu_nhap"].quality_level = "failed"
       /\ extracted_fields["so_dien_thoai"].quality_level # "failed"
       /\ extracted_fields["so_dien_thoai"].validation_errors = <<>> =>
            extracted_fields["so_dien_thoai"].quality_level
              = C11_TierByMethod(extracted_fields["so_dien_thoai"].extraction_method)
  /\ C11_PhoneOnly =>
       /\ extraction_summary.total_fields = 5
       /\ extraction_summary.successful_extractions = 1
       /\ extraction_summary.success_rate = [num |-> 1, den |-> 5]

\* C11 (as stated): a document with a valid phone and no income-related text
\* yields tier failed for income and tier good or excellent for phone, and
\* successRate is 1/5 when the phone is the only field found.
C11_AsStated ==
  /\ C11_ValidPhoneNoIncome =>
       /\ extracted_fields["thu_nhap"].quality_level = "failed"
       /\ extracted_fields["so_dien_thoai"].quality_level \in {"good", "excellent"}
  /\ C11_PhoneOnly => extraction_summary.success_rate = [num |-> 1, den |-> 5]

\* a valid phone found by the context search alone, in a document that holds
\* nothing else
C11_Witness ==
  /\ C11_ValidPhoneNoIncome
  /\ C11_PhoneOnly
  /\ extracted_fields["so_dien_thoai"].extraction_method = "context_search"
  /\ extracted_fields["so_dien_thoai"].quality_level = "moderate"
  /\ extraction_summary.success_rate = [num |-> 1, den |-> 5]

\* the extraction of the income has returned after every step of it ran, the
\* validator among them, and the normalised amount lies outside
\* [income_min, income_max]
C12_OutOfRange ==
  /\ Returned
  /\ field_name = "thu_nhap"
  /\ "validate" \notin RaisedIn("thu_nhap")
  /\ phases["thu_nhap"] = C5_Chain
  /\ normalized_value.kind = "income"
  /\ normalized_value.parsing_successful
  /\ ~is_reasonable(normalized_value)

\* C12: an income candidate that is found and normalised but lies below
\* 100,000 or above 100,000,000 is returned with its normalised value and with
\* the range error among the validation errors, which tells it from a field
\* that was not found: that one has no value, method "none" and the single
\* error "No extraction pattern matched".
C12_InvalidValueKept ==
  /\ C12_OutOfRange =>
       /\ field_result.extracted_value = normalized_value
       /\ field_result.extracted_value # None
       /\ normalized_value.amount < 100000 =>
            "Income seems too low" \in Range(field_result.validation_errors)
       /\ normalized_value.amount > 100000000 =>
            "Income seems too high" \in Range(field_result.validation_errors)
       /\ "No extraction pattern matched" \notin Range(field_result.validation_errors)
       /\ field_result.extraction_method = best.method
       /\ field_result.extraction_method # "none"
  /\ (Returned /\ field_name = "thu_nhap" /\ RaisedIn("thu_nhap") = {}
        /\ NothingFrom("thu_nhap", StrategyNames)) =>
       /\ field_result.extracted_value = None
       /\ field_result.extraction_method = "none"
       /\ field_result.validation_errors = <<"No extraction pattern matched">>

\* an income of two billion, found by the XPath simulation alone, is returned
\* with the error of the upper limit
C12_Witness ==
  /\ C12_OutOfRange
  /\ best.method = "xpath_simulation"
  /\ field_result.extracted_value.amount = 2000000000
  /\ field_result.validation_errors = <<"Income seems too high">>

\* an income of fifty, below the lower limit, is returned with its error
C12_WitnessLow ==
  /\ C12_OutOfRange
  /\ field_result.extracted_value.amount = 50
  /\ "Income seems too low" \in Range(field_result.validation_errors)

(***************************************************************************)
(* Two calls of extract_enhanced_fields, on one engine or on two           *)
(***************************************************************************)
MaxClock == 1

\* the documents and the reference records the two calls are made with
CallInputs ==
  {[html_content |-> Document("thu_nhap",
                              [NothingFound EXCEPT !.css = SampleA("thu_nhap")]),
    input_data |-> ReferenceA],
   [html_content |-> SparseDocument("so_dien_thoai",
                       [NothingFound EXCEPT !.regex = SampleB("so_dien_thoai")]),
    input_data |-> None]}

\* NormalizerFactory.get_normalizer: the class registered, BaseNormalizer if none
get_normalizer(registry, name) ==
  IF name \in DOMAIN registry THEN registry[name] ELSE "BaseNormalizer"

\* ValidatorFactory.get_validator: the class registered, BaseValidator if none
get_validator(registry, name) ==
  IF name \in DOMAIN registry THEN registry[name] ELSE "BaseValidator"

\* ExtractionResult.__post_init__: extraction_timestamp = datetime.now()
post_init(result, t) == [extraction_timestamp |-> t] @@ result

\* a variant of the extraction of one field whose outcome depends on the time
\* of the call
timed_single_field(call, name) ==
  IF now = 0
  THEN extract_single_field(call.html_content.found[name], name, call.input_data)
  ELSE create_failed_extraction_result(name, "No extraction pattern matched")

\* field_result = self._extract_single_field(soup, field_name, html_content,
\* input_data), with the normalisers and validators of the module
single_field_of_call(call, name) ==
  extract_single_field(call.html_content.found[name], name, call.input_data)

\* a variant in which the engine keeps the results of its calls
engine_recording_field(engine, result) ==
  [engine EXCEPT !.extraction_results = Append(@, result)]

\* the attributes of the engine after one turn of the loop over the fields:
\* the result goes to the container of the call, a local
engine_after_field(engine, result) == engine

\* time passes
Tick ==
  /\ now < MaxClock
  /\ now' = now + 1
  /\ UNCHANGED <<main_vars, cross_vars, selector_vars, pure_vars, factory_vars, _normalizers, _validators, engines, calls>>

\* extract_enhanced_fields is called on an engine: the document is parsed
\* and the container of the results initialised
BeginCall(c) ==
  /\ calls[c].status = "idle"
  /\ \E e \in EngineIds, input \in CallInputs :
       /\ c = 1 => e = 1
       /\ calls' = [calls EXCEPT ![c] =
                      [status |-> "running", engine |-> e,
                       html_content |-> input.html_content,
                       input_data |-> input.input_data,
                       field_idx |-> 1, extracted_fields |-> <<>>]]
  /\ UNCHANGED <<main_vars, cross_vars, selector_vars, pure_vars, factory_vars, now, _normalizers, _validators, engines>>

\* one turn of "for field_name in self.field_patterns.keys()" in a call
ExtractField(c) ==
  /\ calls[c].status = "running"
  /\ calls[c].field_idx <= Len(FieldOrder)
  /\ \E name \in {FieldOrder[calls[c].field_idx]} :
       /\ get_normalizer(_normalizers, name) = DefaultNormalizers[name]
       /\ get_validator(_validators, name) = DefaultValidators[name]
       /\ \E result \in {post_init(single_field_of_call(calls[c], name), now)} :
            /\ calls' = [calls EXCEPT
                           ![c].extracted_fields = (name :> result) @@ @,
                           ![c].field_idx = NextFieldIndex(@)]
            /\ engines' = [engines EXCEPT
                             ![calls[c].engine] = engine_after_field(@, result)]
  /\ UNCHANGED <<main_vars, cross_vars, selector_vars, pure_vars, factory_vars, now, _normalizers, _validators>>

\* the call returns its results
ReturnResults(c) ==
  /\ calls[c].status = "running"
  /\ calls[c].field_idx > Len(FieldOrder)
  /\ calls' = [calls EXCEPT ![c].status = "done"]
  /\ UNCHANGED <<main_vars, cross_vars, selector_vars, pure_vars, factory_vars, now, _normalizers, _validators, engines>>

NextCalls ==
  \/ Tick
  \/ \E c \in CallIds : BeginCall(c)
  \/ \E c \in CallIds : ExtractField(c)
  \/ \E c \in CallIds : ReturnResults(c)

Calls == Init /\ [][NextCalls]_vars

\* an ExtractionResult less its extraction_timestamp
Unstamped(result) == [k \in DOMAIN result \ {"extraction_timestamp"} |-> result[k]]

\* two calls made with the same document and the same reference record
SameInputs(c, d) ==
  /\ calls[c].status # "idle" /\ calls[d].status # "idle"
  /\ calls[c].html_content = calls[d].html_content
  /\ calls[c].input_data = calls[d].input_data

\* the fields both calls have extracted
BothExtracted(c, d) ==
  DOMAIN calls[c].extracted_fields \cap DOMAIN calls[d].extracted_fields

RegistryNames == {"thu_nhap", "dia_chi"}

CustomNormalizers == {"CustomNormalizer", "OtherNormalizer"}

CustomValidators == {"CustomValidator", "OtherValidator"}

\* a variant of the registration that keeps a class already registered
register_unless_present(registry, name, class) ==
  IF name \in DOMAIN registry THEN registry ELSE (name :> class) @@ registry

\* cls._normalizers[field_name] = normalizer_class, and the same assignment
\* to cls._validators
register(registry, name, class) == (name :> class) @@ registry

FactoryCall(op, name, class, returned) ==
  [kind |-> "factory_call", op |-> op, name |-> name, class |-> class,
   returned |-> returned, raised |-> "none"]

\* NormalizerFactory.register_normalizer(field_name, normalizer_class)
RegisterNormalizer ==
  /\ \E name \in RegistryNames, class \in CustomNormalizers :
       /\ _normalizers' = register(_normalizers, name, class)
       /\ factory_call' = FactoryCall("register_normalizer", name, class, "None")
  /\ UNCHANGED <<main_vars, cross_vars, selector_vars, pure_vars, now, _validators, engines, calls>>

\* ValidatorFactory.register_validator(field_name, validator_class)
RegisterValidator ==
  /\ \E name \in RegistryNames, class \in CustomValidators :
       /\ _validators' = register(_validators, name, class)
       /\ factory_call' = FactoryCall("register_validator", name, class, "None")
  /\ UNCHANGED <<main_vars, cross_vars, selector_vars, pure_vars, now, _normalizers, engines, calls>>

\* NormalizerFactory.get_normalizer(field_name)
GetNormalizer ==
  /\ \E name \in RegistryNames :
       factory_call' = FactoryCall("get_normalizer", name, "",
                                   get_normalizer(_normalizers, name))
  /\ UNCHANGED <<main_vars, cross_vars, selector_vars, pure_vars, engine_vars>>

\* ValidatorFactory.get_validator(field_name)
GetValidator ==
  /\ \E name \in RegistryNames :
       factory_call' = FactoryCall("get_validator", name, "",
                                   get_validator(_validators, name))
  /\ UNCHANGED <<main_vars, cross_vars, selector_vars, pure_vars, engine_vars>>

NextRegistry ==
  \/ RegisterNormalizer
  \/ RegisterValidator
  \/ GetNormalizer
  \/ GetValidator

Registry == Init /\ [][NextRegistry]_vars

\* the registry that the call in factory_call' works on, before and after
C15_Before ==
  IF factory_call'.op \in {"register_normalizer", "get_normalizer"}
  THEN _normalizers ELSE _validators

C15_After ==
  IF factory_call'.op \in {"register_normalizer", "get_normalizer"}
  THEN _normalizers' ELSE _validators'

C15_IsRegistration == factory_call'.op \in {"register_normalizer", "register_validator"}

\* C15 (as amended): registering a class under a field name never fails: it
\* replaces the class registered under that name, if there is one, without a
\* notice and leaves the other names alone; looking up a name returns the
\* class registered under it, and for a name that is not registered it does
\* not fail either but returns the base class, BaseNormalizer or
\* BaseValidator.
C15_RegistryOverwritesAndDefaults ==
  [][ /\ factory_call'.raised = "none"
      /\ C15_IsRegistration =>
           /\ C15_After[factory_call'.name] = factory_call'.class
           /\ DOMAIN C15_After = DOMAIN C15_Before \cup {factory_call'.name}
           /\ \A n \in DOMAIN C15_Before \ {factory_call'.name} :
                C15_After[n] = C15_Before[n]
      /\ ~C15_IsRegistration =>
           /\ C15_After = C15_Before
           /\ factory_call'.name \in DOMAIN C15_Before =>
                factory_call'.returned = C15_Before[factory_call'.name]
           /\ factory_call'.name \notin DOMAIN C15_Before =>
                factory_call'.returned
                  = IF factory_call'.op = "get_normalizer"
                    THEN "BaseNormalizer" ELSE "BaseValidator"
    ]_vars

\* C15 (as stated): registering a name that is already registered fails with
\* a duplicate-field error and leaves the registry unchanged, and looking up
\* a name that is not registered fails with an unknown-field error.
C15_AsStated ==
  [][ /\ (C15_IsRegistration /\ factory_call'.name \in DOMAIN C15_Before) =>
           /\ factory_call'.raised = "DuplicateField"
           /\ C15_After = C15_Before
      /\ (~C15_IsRegistration /\ factory_call'.name \notin DOMAIN C15_Before) =>
           factory_call'.raised = "UnknownField"
    ]_vars

\* a custom normaliser has replaced IncomeNormalizer, and the look-up of a
\* validator for a name that is not registered has returned BaseValidator
C15_Witness ==
  /\ _normalizers["thu_nhap"] = "CustomNormalizer"
  /\ "dia_chi" \notin DOMAIN _validators
  /\ factory_call.kind = "factory_call"
  /\ factory_call.op = "get_validator"
  /\ factory_call.name = "dia_chi"
  /\ factory_call.returned = "BaseValidator"
  /\ factory_call.raised = "none"

(***************************************************************************)
(* The normalisers and validators called on raw_candidate candidates                 *)
(***************************************************************************)
\* raw phone candidates: a prefix, a body and a suffix
RawPhones ==
  { pre \o body \o suf :
      pre \in { <<>>, <<"0">>, <<"8","4">>, <<"+","8","4"," ">>, <<"(","0",")">> },
      body \in { <<>>,
                 <<"9","1","2","3","4","5","6","7","8">>,
                 <<"9","1","2"," ","3","4","5"," ","6","7","8">>,
                 <<"9","1","2","3","4","5","6","7">>,
                 <<"9","1","2","3","4","5","6","7","8","9">>,
                 <<"0","1","2","3","4","5","6","7","8">>,
                 <<"a","b","c">> },
      suf \in { <<>>, <<" ","m","a","y">> } }

\* a normaliser is made for one call and keeps nothing from it: a behaviour
\* of the normalisers is one call, on any raw candidate, and the validation
\* of what it returned
NoCallYet == raw_candidate = None /\ source_text = None

\* PhoneNormalizer().normalize(phone)
NormalizePhone ==
  /\ NoCallYet
  /\ \E phone \in RawPhones :
       /\ raw_candidate' = Str(phone)
       /\ normalize_returned' = Str(PhoneNormalizer_normalize(phone))
  /\ normalizer_called' = "PhoneNormalizer"
  /\ validate_returned' = None
  /\ source_text' = None
  /\ UNCHANGED <<main_vars, cross_vars, selector_vars, engine_vars, factory_vars>>

\* PhoneValidator().validate(phone) on what the normaliser returned
ValidatePhone ==
  /\ normalizer_called = "PhoneNormalizer"
  /\ validate_returned = None
  /\ validate_returned' = PhoneValidator_validate(normalize_returned)
  /\ UNCHANGED <<main_vars, cross_vars, selector_vars, engine_vars, factory_vars, normalizer_called,
                 raw_candidate, normalize_returned, source_text>>

\* re.IGNORECASE: the text holds the word at position i, the case apart
MatchesAt(text, i, word) ==
  /\ i >= 1
  /\ i + Len(word) - 1 <= Len(text)
  /\ lower(SubSeq(text, i, i + Len(word) - 1)) = lower(word)

\* the position after the longest run, from position i, of characters of a class
RECURSIVE SkipWhile(_, _, _)
SkipWhile(text, i, class) ==
  IF i <= Len(text) /\ text[i] \in class THEN SkipWhile(text, i + 1, class) ELSE i

\* \s
SpaceChars == {" "}

\* [:\s]
ColonOrSpaceChars == {":"} \cup SpaceChars

\* the position after a label, words with \s* between them, that begins at
\* position i; 0 if there is none
RECURSIVE LabelEnd(_, _, _)
LabelEnd(text, i, words) ==
  IF words = <<>> THEN i
  ELSE IF MatchesAt(text, i, Head(words))
  THEN LabelEnd(text, SkipWhile(text, i + Len(Head(words)), SpaceChars), Tail(words))
  ELSE 0

\* (?:[,.][0-9]{3})*
IsGroupTail(s) ==
  /\ Len(s) % 4 = 0
  /\ \A j \in 1 .. Len(s) : IF j % 4 = 1 THEN s[j] \in {",", "."} ELSE IsDigit(s[j])

\* the three capture groups of the income patterns: [0-9,.]+,
\* [0-9]{1,3}(?:[,.][0-9]{3})* and [0-9]+(?:[,.][0-9]{3})*
CaptureMatches(s, group) ==
  CASE group = "number_chars" -> s # <<>> /\ \A j \in 1 .. Len(s) : IsDigit(s[j]) \/ s[j] \in {",", "."}
    [] group = "grouped_1_3" ->
         \E n \in 1 .. Min(Len(s), 3) :
           /\ \A j \in 1 .. n : IsDigit(s[j])
           /\ IsGroupTail(SubSeq(s, n + 1, Len(s)))
    [] group = "grouped" ->
         \E n \in 1 .. Len(s) :
           /\ \A j \in 1 .. n : IsDigit(s[j])
           /\ IsGroupTail(SubSeq(s, n + 1, Len(s)))

\* \s*(?:word|...) at position i, or the end of a pattern without such a part
SuffixMatches(text, i, suffixes) ==
  suffixes = {} \/ \E w \in suffixes : MatchesAt(text, SkipWhile(text, i, SpaceChars), w)

\* a pattern: the labels (?:...|...) that [:\s]* follows, none for a pattern
\* that begins with its group; the group; the words that follow \s*, none for
\* a pattern that ends with its group
RegexPattern(labels, group, suffixes) ==
  [labels |-> labels, group |-> group, suffixes |-> suffixes]

CurrencyWords == { <<"V","N","D">>, <<"d9","o6","n","g">>, <<"V","N","d9">> }

\* regex_patterns of the field thu_nhap
IncomeRegexPatterns ==
  << RegexPattern({ <<<<"T","h","u">>, <<"n","h","a6","p">>>>, <<<<"L","u7","o7","n","g">>>>,
                    <<<<"I","n","c","o","m","e">>>>, <<<<"S","a","l","a","r","y">>>> },
                  "number_chars", CurrencyWords),
     RegexPattern({ <<<<"M","u8","c">>, <<"l","u7","o7","n","g">>>>,
                    <<<<"T","i","e7","n">>, <<"l","u7","o7","n","g">>>> },
                  "number_chars", {}),
     RegexPattern({}, "grouped_1_3", CurrencyWords),
     RegexPattern({ <<<<"I","n","c","o","m","e">>>> }, "number_chars", {}),
     RegexPattern({ <<<<"S","a","l","a","r","y">>>> }, "number_chars", {}),
     RegexPattern({}, "grouped", { <<"t","r","i","e6","u">>, <<"m","i","l","l","i","o","n">> }) >>

\* where the group of a pattern begins for a match that begins at i; 0 if
\* no label of the pattern is there
GroupStart(text, i, pattern) ==
  IF pattern.labels = {} THEN i
  ELSE IF \E l \in pattern.labels : LabelEnd(text, i, l) # 0
  THEN SkipWhile(text, LabelEnd(text, i, CHOOSE l \in pattern.labels :
                                           LabelEnd(text, i, l) # 0),
                 ColonOrSpaceChars)
  ELSE 0

\* where the group may end, for a match, if it begins at b
GroupEnds(text, b, pattern) ==
  { e \in b .. (SkipWhile(text, b, Range(DigitChars) \cup {",", "."}) - 1) :
      /\ CaptureMatches(SubSeq(text, b, e), pattern.group)
      /\ SuffixMatches(text, e + 1, pattern.suffixes) }

\* what the group captures from b, the quantifiers greedy; <<>> if nothing
GreedyCapture(text, b, pattern) ==
  TheOne({ IF ends = {} THEN <<>>
           ELSE SubSeq(text, b, CHOOSE e \in ends : \A f \in ends : f <= e) :
             ends \in {GroupEnds(text, b, pattern)} })

\* what the group of the match that begins at i captures; <<>> if no match
\* begins there
CaptureAt(text, i, pattern) ==
  TheOne({ IF b = 0 THEN <<>> ELSE GreedyCapture(text, b, pattern) :
             b \in {GroupStart(text, i, pattern)} })

\* re.findall(pattern, text, re.IGNORECASE | re.MULTILINE)[0] for the matches
\* that begin at i or after it, <<>> if the list is empty
RECURSIVE FirstMatch(_, _, _)
FirstMatch(text, i, pattern) ==
  IF i > Len(text) THEN <<>>
  ELSE TheOne({ IF captured # <<>> THEN captured ELSE FirstMatch(text, i + 1, pattern) :
                  captured \in {CaptureAt(text, i, pattern)} })

\* BaseExtractor.extract_by_regex(text, patterns)
RECURSIVE extract_by_regex(_, _)
extract_by_regex(text, patterns) ==
  IF patterns = <<>> THEN None
  ELSE TheOne({ IF match # <<>> THEN Str(strip(match))
                ELSE extract_by_regex(text, Tail(patterns)) :
                  match \in {FirstMatch(text, 1, Head(patterns))} })

\* texts of a page that state an income, the amounts within 32 bits
IncomeTexts ==
  LET \* the words before the number of a text that states an income
    IncomeLabels ==
      { <<>>, <<"T","h","u"," ","n","h","a6","p",":"," ">>, <<"I","n","c","o","m","e",":"," ">> }

    \* the words after the number
    IncomeTails ==
      { <<>>, <<" ","t","r","i","e6","u">>, <<" ","t","r","i","e6","u"," ","d9","o6","n","g">>,
        <<" ","V","N","D">>, <<" ","(","t","r","i","e6","u",")">> }
  IN
    { l \o n \o t :
        l \in IncomeLabels, n \in { <<"1","8">>, <<"1",",","5","0","0">> }, t \in IncomeTails }
    \cup { l \o <<"2","5",",","5","0","0",",","0","0","0">> \o t :
             l \in IncomeLabels, t \in { <<>>, <<" ","V","N","D">> } }

\* what the strategies find in a page where only the patterns may match
FoundByRegex(regex_result) ==
  [s \in StrategyNames |-> IF s = "regex" THEN regex_result ELSE None]

\* raw income candidates, the amounts within 32 bits
RawIncomes ==
  LET \* the unit words that a raw income may hold, none at all, or two of them
    IncomeUnitWords ==
      { <<>>,
        <<" ","t","r","i","e6","u">>,
        <<" ","M","i","l","l","i","o","n">>,
        <<" ","n","g","h","i2","n">>,
        <<" ","t","h","o","u","s","a","n","d">>,
        <<"k">>,
        <<" ","n","g","h","i2","n"," ","t","r","i","e6","u">> }

    IncomeBillionWords == { <<" ","t","y3">>, <<" ","b","i","l","l","i","o","n">>,
                            <<" ","t","y3"," ","5"," ","t","r","i","e6","u">> }

    IncomeSuffixes == { <<>>, <<" ","d9","o6","n","g">>, <<" ","V","N","D">> }
  IN
    { n \o u \o suf :
        n \in { <<"1","8">>, <<"1",".","5">>, <<"2">> },
        u \in IncomeUnitWords, suf \in IncomeSuffixes }
    \cup { n \o u \o suf :
            n \in { <<"1">>, <<"2">> }, u \in IncomeBillionWords, suf \in IncomeSuffixes }
    \cup { n \o suf :
            n \in { <<>>, <<"2","5",",","5","0","0",",","0","0","0">>,
                    <<"2","5",".","5","0","0",".","0","0","0">>, <<",",".">> },
            suf \in IncomeSuffixes }

\* IncomeNormalizer().normalize(income)
NormalizeIncome ==
  /\ NoCallYet
  /\ \E income \in RawIncomes :
       /\ raw_candidate' = Str(income)
       /\ normalize_returned' = IncomeNormalizer_normalize(income)
  /\ normalizer_called' = "IncomeNormalizer"
  /\ validate_returned' = None
  /\ source_text' = None
  /\ UNCHANGED <<main_vars, cross_vars, selector_vars, engine_vars, factory_vars>>

\* IncomeValidator().validate(income) on what the normaliser returned
ValidateIncome ==
  /\ normalizer_called = "IncomeNormalizer"
  /\ validate_returned = None
  /\ validate_returned' = IncomeValidator_validate(normalize_returned)
  /\ UNCHANGED <<main_vars, cross_vars, selector_vars, engine_vars, factory_vars, normalizer_called,
                 raw_candidate, normalize_returned, source_text>>

\* _extract_single_field('thu_nhap', ...) on a page where only the regex
\* strategy may find the income: extract_by_regex on the text, and the
\* normaliser on what the pattern captured
ExtractIncomeFromText ==
  /\ NoCallYet
  /\ \E text \in IncomeTexts :
       \E regex_result \in {extract_by_regex(text, IncomeRegexPatterns)} :
         \E result \in {extract_single_field(FoundByRegex(regex_result), "thu_nhap", None)} :
           /\ source_text' = Str(text)
           /\ raw_candidate' = regex_result
           /\ normalize_returned' = result.extracted_value
           /\ normalizer_called' = IF regex_result = None THEN "" ELSE "IncomeNormalizer"
  /\ validate_returned' = None
  /\ UNCHANGED <<main_vars, cross_vars, selector_vars, engine_vars, factory_vars>>

\* raw bank texts: codes of the table in either case, alone or within a
\* name, codes cut or spaced out, and names that hold no code
RawBanks ==
  { pre \o core \o suf :
      pre \in { <<>>, <<" ">>, <<"N","H"," ">> },
      core \in { <<"A","C","B">>,
               <<"v","c","b">>,
               <<"T","c","b">>,
               <<"V","i","e","t","c","o","m","b","a","n","k">>,
               <<"A"," ","C"," ","B">>,
               <<"A","C">>,
               <<"a"," ","c","h","a","u">>,
               <<"S","e","A","B","a","n","k">>,
               <<"B",".","I",".","D">>,
               <<"v","i","e","t","i","n","b","a","n","k"," ","c","t","g">>,
               <<"h","s","b","c">>,
               <<"N","g","o","a","i"," ","t","h","u","o","n","g">> },
      suf \in { <<>>, <<" ","b","a","n","k">> } }

\* BankNormalizer().normalize(bank)
NormalizeBank ==
  /\ NoCallYet
  /\ \E bank \in RawBanks :
       /\ raw_candidate' = Str(bank)
       /\ normalize_returned' = BankNormalizer_normalize(bank)
  /\ normalizer_called' = "BankNormalizer"
  /\ validate_returned' = None
  /\ source_text' = None
  /\ UNCHANGED <<main_vars, cross_vars, selector_vars, engine_vars, factory_vars>>

\* raw member texts, each with what the expressions of the normaliser find in
\* it: none, records for one stage only, and records for several stages
RawMemberTexts ==
  LET \* what the expressions of the normaliser find in the texts below
    Match(name, relationship, birth_year) ==
      [name |-> name, relationship |-> relationship, birth_year |-> birth_year]

    MatchAn == Match(<<"A","n">>, <<"C","o","n">>, <<"2","0","1","0">>)

    MatchBinhNoYear == Match(<<"B","i","n","h">>, <<"V","o7">>, <<>>)

    Row(name, relationship, birth_year) ==
      <<"<","t","r",">","<","t","d",">">> \o name \o <<"<","/","t","d",">","<","t","d",">">>
        \o relationship \o <<"<","/","t","d",">","<","t","d",">">> \o birth_year
        \o <<"<","/","t","d",">","<","/","t","r",">">>

    TextRow == Row(<<"B","i","n","h">>, <<"V","o7">>, <<"1","9","8","7">>)

    TextKeyValue == <<"{","\"","n","a","m","e","\"",":"," ","\"","B","i","n","h","\"",","," ",
        "\"","r","e","l","a","t","i","o","n","\"",":"," ","\"","V","o7","\"",","," ","\"","b",
        "i","r","t","h","_","y","e","a","r","\"",":"," ","\"","1","9","8","7","\"","}">>

    TextDashes == <<"B","i","n","h"," ","-"," ","V","o7"," ","-"," ","1","9","8","7">>

    TextRelationFirst == <<"C","o","n",":"," ","A","n"," ","(","2","0","1","0",")">>

    TextNameFirst == <<"B","i","n","h",":"," ","V","o7">>

    TextBrackets == <<"B","i","n","h"," ","(","V","o7",")">>

    TextNothing == <<"K","h","o","n","g"," ","c","o">>
  IN
    { MText(<<Piece(TextNothing, NoMatches)>>),
      MText(<<Piece(TextBrackets, [NoMatches EXCEPT !.delim = <<MatchBinhNoYear>>])>>),
      MText(<<Piece(TextRow,
                    [NoMatches EXCEPT
                       !.tr = <<MatchBinh>>,
                       !.delim = <<Match(<<"t","r">>, <<"V","o7">>, <<"1","9","8","7">>)>>])>>),
      MText(<<Piece(TextRow \o <<" ">> \o TextRelationFirst,
                    [NoMatches EXCEPT
                       !.tr = <<MatchBinh>>,
                       !.p2 = <<MatchAn>>,
                       !.delim = <<Match(<<"t","r">>, <<"V","o7">>, <<"1","9","8","7">>)>>])>>),
      MText(<<Piece(TextKeyValue,
                    [NoMatches EXCEPT
                       !.json = <<MatchBinh>>,
                       !.delim = <<Match(<<"r","e","l","a","t","i","o","n">>, <<"V","o7">>,
                                         <<>>)>>])>>),
      MText(<<Piece(TextKeyValue \o <<" ">> \o TextRelationFirst,
                    [NoMatches EXCEPT
                       !.json = <<MatchBinh>>,
                       !.p2 = <<MatchAn>>,
                       !.delim = <<Match(<<"r","e","l","a","t","i","o","n">>, <<"V","o7">>, <<>>),
                                   Match(<<"b","i","r","t","h">>, <<"C","o","n">>,
                                         <<"1","9","8","7">>)>>])>>),
      MText(<<Piece(TextDashes,
                    [NoMatches EXCEPT !.p1 = <<MatchBinh>>, !.delim = <<MatchBinh>>])>>),
      MText(<<Piece(TextRelationFirst, [NoMatches EXCEPT !.p2 = <<MatchAn>>])>>),
      MText(<<Piece(TextNameFirst,
                    [NoMatches EXCEPT
                       !.p3 = <<MatchBinhNoYear>>, !.delim = <<MatchBinhNoYear>>])>>),
      MText(<<Piece(TextDashes \o <<",", " ">> \o TextRelationFirst,
                    [NoMatches EXCEPT
                       !.p1 = <<MatchBinh>>, !.p2 = <<MatchAn>>, !.delim = <<MatchBinh>>])>>),
      MText(<<Piece(TextNameFirst \o <<",", " ">> \o TextRelationFirst,
                    [NoMatches EXCEPT
                       !.p2 = <<MatchAn>>,
                       !.p3 = <<Match(<<"B","i","n","h">>, <<"V","o7">>, <<"2","0","1","0">>)>>,
                       !.delim = <<MatchBinhNoYear>>])>>),
      MText(<<Piece(TextDashes \o <<",", " ", "A", "n", ":", " ", "C", "o", "n">>,
                    [NoMatches EXCEPT
                       !.p1 = <<MatchBinh>>,
                       !.p3 = <<Match(<<"A","n">>, <<"C","o","n">>, <<>>)>>,
                       !.delim = <<MatchBinh, Match(<<"A","n">>, <<"C","o","n">>, <<>>)>>])>>),
      MText(<<Piece(TextBrackets \o <<",", " ">> \o TextRelationFirst,
                    [NoMatches EXCEPT
                       !.p2 = <<MatchAn>>, !.delim = <<MatchBinhNoYear>>])>>),
      MText(<<Piece(Row(<<"A","_","B">>, <<"C">>, <<"1","9","8","7">>)
                      \o Row(<<"A">>, <<"B","_","C">>, <<"1","9","9","0">>),
                    [NoMatches EXCEPT
                       !.tr = <<Match(<<"A","_","B">>, <<"C">>, <<"1","9","8","7">>),
                                Match(<<"A">>, <<"B","_","C">>, <<"1","9","9","0">>)>>])>>),
      MText(<<Piece(TextRow \o Row(<<"B","I","N","H">>, <<"v","o7">>, <<"1","9","9","0">>),
                    [NoMatches EXCEPT
                       !.tr = <<MatchBinh,
                                Match(<<"B","I","N","H">>, <<"v","o7">>, <<"1","9","9","0">>)>>,
                       !.delim = <<Match(<<"t","r">>, <<"V","o7">>, <<"1","9","8","7">>)>>])>>),
      MText(<<Piece(TextRow \o Row(<<"B","i","n","h">>, <<"C","o","n">>, <<"1","9","9","0">>),
                    [NoMatches EXCEPT
                       !.tr = <<MatchBinh,
                                Match(<<"B","i","n","h">>, <<"C","o","n">>, <<"1","9","9","0">>)>>,
                       !.delim = <<Match(<<"t","r">>, <<"V","o7">>, <<"1","9","8","7">>)>>])>>),
      MText(<<Piece(TextNameFirst \o <<",", " ">> \o TextDashes,
                    [NoMatches EXCEPT
                       !.p1 = <<MatchBinh>>, !.p3 = <<MatchBinh>>,
                       !.delim = <<MatchBinhNoYear, MatchBinh>>])>>) }

\* MemberInfoNormalizer().normalize(member_text)
NormalizeMembers ==
  /\ NoCallYet
  /\ \E member_text \in RawMemberTexts :
       /\ raw_candidate' = member_text
       /\ normalize_returned' = MemberInfoNormalizer_normalize(member_text)
  /\ normalizer_called' = "MemberInfoNormalizer"
  /\ validate_returned' = None
  /\ source_text' = None
  /\ UNCHANGED <<main_vars, cross_vars, selector_vars, engine_vars, factory_vars>>

NextNormalizers ==
  \/ NormalizePhone
  \/ ValidatePhone
  \/ NormalizeIncome
  \/ ValidateIncome
  \/ ExtractIncomeFromText
  \/ NormalizeBank
  \/ NormalizeMembers

Normalizers == Init /\ [][NextNormalizers]_vars

(***************************************************************************)
(* The cross-validator on its own: one call of validate_field_consistency  *)
(* on a field, a value and a reference record                              *)
(***************************************************************************)
\* a reference record with one key, or with none of the keys of the field
ReferenceRecords(keys, values) ==
  { Dict((k :> v)) : k \in keys, v \in values } \cup { Dict(("other" :> Str(<<"x">>))) }

\* the calls: for each field, values as the pipeline passes them (normalised)
\* and as a caller may pass them, against reference records under each key
CrossCalls ==
  LET Call(f, e, r) ==
        [kind |-> "call", field_name |-> f, extracted_value |-> e, input_data |-> r]
      Phones ==
        { Str(<<"0","9","1","2","3","4","5","6","7","8">>), Str(<<"+","8","4"," ","9","1","2"," ","3","4","5"," ","6","7","8">>), Str(<<"0","9","8","7","6","5","4","3","2","1">>),
          Str(<<"a","b","c">>), Str(<<"8","4","9","1","2","3","4","5","6","7","8">>), Str(<<"9","1","2","3","4","5","6","7","8">>) }
      PhoneReferences ==
        { Str(<<"0","9","1","2","3","4","5","6","7","8">>), Str(<<"0","9","8","7","6","5","4","3","2","1">>), Str(<<"+","8","4"," ","9","1","2"," ","3","4","5"," ","6","7","8">>),
          Str(<<"a","b","c">>), Num(912345678), Str(<<"9","1","2","3","4","5","6","7","8">>) }
      Amounts == {0, 1, 899, 900, 901, 1000, 1099, 1100, 1101, 2000, 2001, 18000000}
      Incomes ==
        { IncomeNormalizer_normalize(IntToStr(a)) : a \in Amounts }
          \cup { Str(<<"a","b","c">>), Num(1000), Str(<<"1",",","0","5","0">>) }
      IncomeReferences ==
        { Num(1000), Str(<<"1",",","0","0","0">>), Num(0), Str(<<"a","b","c">>),
          Num(18000000), Num(10) }
      Banks ==
        { BankNormalizer_normalize(<<"V","C","B">>),
          BankNormalizer_normalize(<<"m","y"," ","b","a","n","k">>),
          Str(<<"V","C","B">>), Str(<<" ","v","c","b">>), Str(<<"V","C">>) }
      BankReferences ==
        { Str(<<"V","C","B">>), Str(<<"v","c","b"," ">>), Str(<<"V","C","B"," ","H","N">>),
          Str(<<"A","C","B">>) }
      Codes ==
        { Str(<<"H","G","D","1","2","3","4","5","6","7","8","9">>), Str(<<"H","G","-","1">>),
          Str(<<"h","g","d","1","2","3","4","5","6","7","8","9">>) }
      CodeReferences ==
        { Str(<<"H","G","D","1","2","3","4","5","6","7","8","9">>),
          Str(<<"H","G","D","1","2","3","4","5","6","7","8","9","0">>),
          Str(<<"H","G","D">>), Str(<<"X","Y","Z">>) }
      MemberLists ==
        { Normalizer("thong_tin_thanh_vien", SampleA("thong_tin_thanh_vien")),
          Str(<<"B","i","n","h">>) }
      MemberReferences == { Str(<<"B","i","n","h">>), Str(<<"b","i","n","h"," ">>), Str(<<"A","n">>) }
  IN { Call("so_dien_thoai", e, r) :
         e \in Phones, r \in ReferenceRecords({"phone", "dien_thoai", "sdt"}, PhoneReferences) }
     \cup { Call("thu_nhap", e, r) :
              e \in Incomes, r \in ReferenceRecords({"income", "thu_nhap"}, IncomeReferences) }
     \cup { Call("ngan_hang", e, r) :
              e \in Banks, r \in ReferenceRecords({"bank", "ngan_hang"}, BankReferences) }
     \cup { Call("ma_ho_gia_dinh", e, r) :
              e \in Codes, r \in ReferenceRecords({"household_code", "hgd"}, CodeReferences) }
     \cup { Call("thong_tin_thanh_vien", e, r) :
              e \in MemberLists, r \in ReferenceRecords({"members", "family"}, MemberReferences) }

\* CrossValidator().validate_field_consistency(field_name, extracted_value, input_data)
ValidateFieldConsistency ==
  /\ cross_call = None
  /\ \E call \in CrossCalls :
       /\ cross_call' = call
       /\ cross_returned' = validate_field_consistency(call.field_name, call.extracted_value,
                                                       call.input_data)
  /\ UNCHANGED <<main_vars, engine_vars, factory_vars, pure_vars, selector_vars>>

CrossValidation == Init /\ [][ValidateFieldConsistency]_vars

(***************************************************************************)
(* extractors/base_extractor.py : the CSS selector strategy                *)
(* What soup.select(selector) gives is an input: for each selector, the    *)
(* texts (get_text()) of the elements it matches, or an exception.  The    *)
(* letters of 'họ tên' and 'năm sinh' outside ASCII are the tokens "o5",   *)
(* "e2" and "a8".                                                          *)
(***************************************************************************)
Elements(texts) == [kind |-> "elements", texts |-> texts]

\* soup.select(selector) raises
InvalidSelector == [kind |-> "invalid"]

\* skip_headers
skip_headers ==
  << <<"h","o5"," ","t","e2","n">>, <<"q","u","a","n"," ","h","e6">>,
     <<"n","a8","m"," ","s","i","n","h">>, <<"n","a","m","e">>,
     <<"r","e","l","a","t","i","o","n","s","h","i","p">> >>

\* any(header in text.lower() for header in skip_headers)
HasHeader(text) == \E i \in DOMAIN skip_headers : Contains(lower(text), skip_headers[i])

\* the stripped texts of the elements that are neither empty nor skipped
RECURSIVE combined_text(_)
combined_text(texts) ==
  IF texts = <<>> THEN <<>>
  ELSE (IF strip(Head(texts)) # <<>> /\ ~HasHeader(strip(Head(texts)))
        THEN <<strip(Head(texts))>> ELSE <<>>)
       \o combined_text(Tail(texts))

\* ' | '.join(texts)
RECURSIVE JoinTexts(_)
JoinTexts(texts) ==
  IF texts = <<>> THEN <<>>
  ELSE IF Len(texts) = 1 THEN Head(texts)
  ELSE Head(texts) \o <<" ", "|", " ">> \o JoinTexts(Tail(texts))

\* the stripped text of the first element whose stripped text is not empty
RECURSIVE FirstText(_)
FirstText(texts) ==
  IF texts = <<>> THEN None
  ELSE IF strip(Head(texts)) # <<>> THEN Str(strip(Head(texts)))
  ELSE FirstText(Tail(texts))

\* BaseExtractor._handle_multiple_member_elements
handle_multiple_member_elements(texts) ==
  IF Len(texts) > 1 /\ combined_text(texts) # <<>>
  THEN Str(JoinTexts(combined_text(texts)))
  ELSE FirstText(texts)

\* BaseExtractor.extract_by_css_selectors, from the selector at position i on
RECURSIVE CssFrom(_, _, _)
CssFrom(field, selected, i) ==
  IF i > Len(selected) THEN None
  ELSE IF selected[i].kind = "invalid" THEN CssFrom(field, selected, i + 1)
  ELSE IF field = "thong_tin_thanh_vien" /\ selected[i].texts # <<>>
  THEN handle_multiple_member_elements(selected[i].texts)
  ELSE IF FirstText(selected[i].texts) # None THEN FirstText(selected[i].texts)
  ELSE CssFrom(field, selected, i + 1)

extract_by_css_selectors(field, selected) == CssFrom(field, selected, 1)

\* what the selectors of a field match in a document
Selections ==
  LET Texts ==
        { <<>>, <<" ">>,
          <<"H","o5"," ","t","e2","n">>,
          <<" ","Q","u","a","n"," ","h","e6"," ">>,
          <<"H","o5"," ","t","e2","n",":"," ","A","n">>,
          <<"B","i","n","h"," ","-"," ","V","o7">>,
          <<" ","A","n"," ","-"," ","C","o","n">> }
      Short == {<<>>} \cup { <<a>> : a \in Texts } \cup { <<a, b>> : a \in Texts, b \in Texts }
      Long == { <<a, b, c>> : a \in Texts, b \in Texts, c \in Texts }
  IN { <<Elements(e)>> : e \in Short \cup Long }
     \cup { <<first, Elements(e)>> :
              first \in {InvalidSelector, Elements(<<>>), Elements(<< <<" ">> >>)},
              e \in Short }

\* extractor.extract_by_css_selectors(soup, field_name, selectors)
SelectByCss ==
  /\ selector_call = None
  /\ \E f \in {"thong_tin_thanh_vien", "so_dien_thoai"}, selected \in Selections :
       /\ selector_call' = [kind |-> "call", field_name |-> f, selected |-> selected]
       /\ selector_returned' = extract_by_css_selectors(f, selected)
  /\ UNCHANGED <<main_vars, engine_vars, factory_vars, pure_vars, cross_vars>>

Selectors == Init /\ [][SelectByCss]_vars

\* the digits of a raw string, a leading 84 replaced by 0 when there are at
\* least 10 of them
C16_Digits(r) ==
  LET d == SelectSeq(r, LAMBDA c : c \in {"0","1","2","3","4","5","6","7","8","9"})
  IN IF Len(d) >= 10 /\ d[1] = "8" /\ d[2] = "4"
     THEN <<"0">> \o SubSeq(d, 3, Len(d)) ELSE d

\* 0, a digit from 1 to 9, and 8 or 9 digits more
C16_Canonical(d) ==
  /\ Len(d) \in {10, 11}
  /\ d[1] = "0"
  /\ d[2] \in {"1","2","3","4","5","6","7","8","9"}
  /\ \A i \in 3 .. Len(d) : d[i] \in {"0","1","2","3","4","5","6","7","8","9"}

C16_Example(r, result) == raw_candidate = Str(r) => normalize_returned = Str(result)

\* C16: for every raw string r the phone normaliser returns the digits of r,
\* a leading 84 replaced by 0 when r has at least 10 digits, if they are 0, a
\* digit from 1 to 9 and 8 or 9 digits more, and r itself otherwise; in the
\* second case the phone validator records an error.  '+84 912 345 678' and
\* '0912345678' give '0912345678', and 'abc' gives 'abc' with an error.
C16_PhoneCanonicalOrUnchanged ==
  normalizer_called = "PhoneNormalizer" =>
    /\ C16_Canonical(C16_Digits(raw_candidate.s)) =>
         /\ normalize_returned = Str(C16_Digits(raw_candidate.s))
         /\ validate_returned # None => validate_returned.errors = <<>>
    /\ ~C16_Canonical(C16_Digits(raw_candidate.s)) =>
         /\ normalize_returned = raw_candidate
         /\ validate_returned # None => validate_returned.errors # <<>>
    /\ C16_Example(<<"+","8","4"," ","9","1","2"," ","3","4","5"," ","6","7","8">>,
                   <<"0","9","1","2","3","4","5","6","7","8">>)
    /\ C16_Example(<<"0","9","1","2","3","4","5","6","7","8">>,
                   <<"0","9","1","2","3","4","5","6","7","8">>)
    /\ C16_Example(<<"a","b","c">>, <<"a","b","c">>)

\* a raw string of ten digits that begins with 84 has lost the 84 and is
\* returned unchanged, with an error of the validator
C16_Witness ==
  /\ normalizer_called = "PhoneNormalizer"
  /\ raw_candidate = Str(<<"8","4","9","1","2","3","4","5","6","7">>)
  /\ normalize_returned = raw_candidate
  /\ validate_returned # None
  /\ "Invalid Vietnam phone number format" \in Range(validate_returned.errors)

\* '+84 912 345 678' has become '0912345678', which the validator accepts
C16_WitnessCanonical ==
  /\ normalizer_called = "PhoneNormalizer"
  /\ raw_candidate = Str(<<"+","8","4"," ","9","1","2"," ","3","4","5"," ","6","7","8">>)
  /\ normalize_returned = Str(<<"0","9","1","2","3","4","5","6","7","8">>)
  /\ validate_returned # None
  /\ validate_returned.errors = <<>>

\* the value of a string of decimal digits
RECURSIVE C17_Int(_)
C17_Int(d) ==
  IF d = <<>> THEN 0
  ELSE 10 * C17_Int(SubSeq(d, 1, Len(d) - 1))
       + (CHOOSE n \in 0 .. 9 : DigitChars[n + 1] = d[Len(d)])

C17_Digits(r) == SelectSeq(r, IsDigit)

C17_Has(r, word) == Contains(lower(r), word)

\* the multiplier of the first keyword of the table that the raw string
\* holds, 1 if it holds none
C17_Multiplier(r) ==
  IF C17_Has(r, <<"t","r","i","e6","u">>) \/ C17_Has(r, <<"m","i","l","l","i","o","n">>)
  THEN 1000000
  ELSE IF C17_Has(r, <<"n","g","h","i2","n">>)
          \/ C17_Has(r, <<"t","h","o","u","s","a","n","d">>) \/ C17_Has(r, <<"k">>)
  THEN 1000
  ELSE IF C17_Has(r, <<"t","y3">>) \/ C17_Has(r, <<"b","i","l","l","i","o","n">>)
  THEN 1000000000
  ELSE 1

C17_Example(r, amount) ==
  raw_candidate = Str(r) => normalize_returned.amount = amount

\* C17: the income normaliser parses the digits of the raw string, the
\* separators removed, as an integer and multiplies it by the multiplier of
\* the first keyword, in the order of the table of multipliers (trieu and
\* million 1,000,000; nghin, thousand and k 1,000; ty and billion
\* 1,000,000,000), that the raw string holds: one multiplier at most, and none
\* when the string holds no keyword; the currency is VND.  '18 trieu dong'
\* gives 18000000 and '25,500,000 VND' gives 25500000.
C17_IncomeDigitsTimesUnit ==
  (normalizer_called = "IncomeNormalizer" /\ C17_Digits(raw_candidate.s) # <<>>) =>
    /\ normalize_returned.parsing_successful
    /\ normalize_returned.amount
         = C17_Int(C17_Digits(raw_candidate.s)) * C17_Multiplier(raw_candidate.s)
    /\ normalize_returned.currency = "VND"
    /\ C17_Example(<<"1","8"," ","t","r","i","e6","u"," ","d9","o6","n","g">>, 18000000)
    /\ C17_Example(<<"2","5",",","5","0","0",",","0","0","0"," ","V","N","D">>, 25500000)

\* a raw string with two keywords, "nghin" before "trieu": the amount is
\* multiplied once, by the million
C17_Witness ==
  /\ normalizer_called = "IncomeNormalizer"
  /\ raw_candidate = Str(<<"1","8"," ","n","g","h","i2","n"," ","t","r","i","e6","u">>)
  /\ normalize_returned.amount = 18000000
  /\ normalize_returned.multiplier_applied = <<"t","r","i","e6","u">>

\* C18: in the pipeline the unit keyword that decides the multiplier of an
\* income is searched in the whole text and not only in what the winning
\* pattern captured: when the candidate is a captured number and its unit word
\* lies outside the capture group, the amount is the number times the
\* multiplier of the unit word of the text.
C18_AsStated ==
  (source_text # None /\ raw_candidate # None /\ C17_Digits(raw_candidate.s) # <<>>) =>
    normalize_returned.amount
      = C17_Int(C17_Digits(raw_candidate.s)) * C17_Multiplier(source_text.s)

\* 'Thu nhap: 18 trieu dong': the last pattern captures '18', the normaliser
\* is given '18' alone, and the amount is 18
C18_UnitOutsideCaptureIsLost ==
  /\ source_text = Str(<<"T","h","u"," ","n","h","a6","p",":"," ","1","8"," ",
                         "t","r","i","e6","u"," ","d9","o6","n","g">>)
  /\ raw_candidate = Str(<<"1","8">>)
  /\ normalize_returned.amount = 18
  /\ normalize_returned.multiplier_applied = <<>>

\* a code of the table occurs in the raw text, the case apart
C19_HoldsCode(r, code) == Contains(upper(r), code)

\* a word of a code of the table occurs in the raw text
C19_HoldsWordOf(r, code) == \E w \in Range(split(code)) : Contains(upper(r), w)

C19_Outcome(r) ==
  IF \E i \in DOMAIN BankCodes : C19_HoldsCode(r, BankCodes[i]) THEN "exact"
  ELSE IF \E i \in DOMAIN BankCodes : C19_HoldsWordOf(r, BankCodes[i]) THEN "partial"
  ELSE "unknown"

\* C19: the bank normaliser classifies every non-empty raw text into exactly
\* one of three outcomes, tried in this order: a code of the table occurring
\* as a substring gives exact with confidence 1.0; otherwise a word overlap
\* with an entry of the table gives partial with confidence 0.8; otherwise
\* unknown with confidence 0.5 and the title-cased raw text as display name.
\* Each of the three outcomes is produced for some input.
C19_AsStated ==
  /\ normalizer_called = "BankNormalizer" =>
       /\ normalize_returned.match_type = C19_Outcome(raw_candidate.s)
       /\ normalize_returned.confidence
            = (CASE normalize_returned.match_type = "exact" -> 10
                 [] normalize_returned.match_type = "partial" -> 8
                 [] normalize_returned.match_type = "unknown" -> 5)
       /\ normalize_returned.match_type = "unknown" =>
            normalize_returned.full_name = title(raw_candidate.s)
  /\ \A outcome \in {"exact", "partial", "unknown"} :
       \E bank \in RawBanks : BankNormalizer_normalize(bank).match_type = outcome

\* what the normaliser does: every raw text is exact or unknown, and no raw
\* text is partial, since a code of the table is one word
C19_ExactOrUnknown ==
  normalizer_called = "BankNormalizer" =>
    /\ normalize_returned.match_type = C19_Outcome(raw_candidate.s)
    /\ normalize_returned.match_type \in {"exact", "unknown"}
    /\ normalize_returned.confidence
         = (IF normalize_returned.match_type = "exact" THEN 10 ELSE 5)
    /\ normalize_returned.match_type = "unknown" =>
         normalize_returned.full_name = title(raw_candidate.s)

\* 'Vietcombank', a word of the entry of VCB, is unknown
C19_NameOfAnEntryIsUnknown ==
  /\ normalizer_called = "BankNormalizer"
  /\ raw_candidate = Str(<<"V","i","e","t","c","o","m","b","a","n","k">>)
  /\ normalize_returned.match_type = "unknown"
  /\ normalize_returned.confidence = 5
  /\ normalize_returned.full_name = <<"V","i","e","t","c","o","m","b","a","n","k">>

\* the records that the matches of one expression make
C20_Records(text, stage) == Range(MapMembers(FindAll(text.pieces, stage), stage))

C20_RecordsOf(text, group) == UNION { C20_Records(text, stage) : stage \in group }

\* two records have the same key: the name and the relationship, lower-cased
\* and trimmed, written with '_' between them
C20_SameMember(a, b) ==
  strip(lower(a.name)) \o <<"_">> \o strip(lower(a.relationship))
    = strip(lower(b.name)) \o <<"_">> \o strip(lower(b.relationship))

\* the returned records are those of the first group of expressions, in the
\* order given, that makes any record: all of them, the repetitions of a key
\* apart, and no record of another group
C20_FromFirstOf(groups) ==
  normalizer_called = "MemberInfoNormalizer" =>
    /\ (\A k \in DOMAIN groups : C20_RecordsOf(raw_candidate, groups[k]) = {}) =>
         normalize_returned.list = <<>>
    /\ \A k \in DOMAIN groups :
         ( /\ C20_RecordsOf(raw_candidate, groups[k]) # {}
           /\ \A j \in 1 .. (k - 1) : C20_RecordsOf(raw_candidate, groups[j]) = {} ) =>
           /\ Range(normalize_returned.list) \subseteq C20_RecordsOf(raw_candidate, groups[k])
           /\ \A r \in C20_RecordsOf(raw_candidate, groups[k]) :
                (r.name # <<>> /\ r.relationship # <<>>) =>
                  \E m \in Range(normalize_returned.list) : C20_SameMember(m, r)

C20_WitnessRowStops ==
  /\ normalizer_called = "MemberInfoNormalizer"
  /\ C20_Records(raw_candidate, "tr") # {}
  /\ C20_Records(raw_candidate, "p2") # {}
  /\ Range(normalize_returned.list) = C20_Records(raw_candidate, "tr")

\* the records of the first stage of the normaliser that makes any
C21_Candidates(text) ==
  IF extract_from_table_rows(text) # <<>> THEN extract_from_table_rows(text)
  ELSE IF extract_from_json(text) # <<>> THEN extract_from_json(text)
  ELSE IF extract_from_structured_text(text) # <<>> THEN extract_from_structured_text(text)
  ELSE extract_from_delimited_text(text)

\* two records have equal names and equal relationships, the case ignored
C21_SamePair(a, b) ==
  lower(a.name) = lower(b.name) /\ lower(a.relationship) = lower(b.relationship)

\* the records of a list that no earlier record of the list repeats
C21_FirstOccurrences(list, Same(_, _)) ==
  SelectSeq([i \in DOMAIN list |-> [at |-> i, member |-> list[i]]],
            LAMBDA e : \A j \in 1 .. (e.at - 1) : ~Same(list[j], e.member))

C21_MembersOf(entries) == [i \in DOMAIN entries |-> entries[i].member]

\* C21: the member list returned by normalisation never contains two entries
\* whose names are equal ignoring case and whose relationships are equal
\* ignoring case; when several matches or stages yield the same pair only the
\* first occurrence is kept, and entries that differ in name or in
\* relationship are both kept.
C21_AsStated ==
  normalizer_called = "MemberInfoNormalizer" =>
    /\ \A i, j \in DOMAIN normalize_returned.list :
         i # j => ~C21_SamePair(normalize_returned.list[i], normalize_returned.list[j])
    /\ normalize_returned.list
         = C21_MembersOf(C21_FirstOccurrences(C21_Candidates(raw_candidate), C21_SamePair))

\* what the normaliser does: it keeps the first record of each key
C21_FirstOfEachKey ==
  normalizer_called = "MemberInfoNormalizer" =>
    /\ \A i, j \in DOMAIN normalize_returned.list :
         i # j => ~C21_SamePair(normalize_returned.list[i], normalize_returned.list[j])
    /\ normalize_returned.list
         = C21_MembersOf(C21_FirstOccurrences(C21_Candidates(raw_candidate), C20_SameMember))

\* the rows (A_B, C) and (A, B_C) have the key a_b_c: the second is dropped
C21_DistinctPairsCollide ==
  /\ normalizer_called = "MemberInfoNormalizer"
  /\ Len(C21_Candidates(raw_candidate)) = 2
  /\ ~C21_SamePair(C21_Candidates(raw_candidate)[1], C21_Candidates(raw_candidate)[2])
  /\ normalize_returned.list = <<C21_Candidates(raw_candidate)[1]>>

\* the rows (Binh, Vo) and (BINH, vo): the second is dropped as a repetition
C21_RepetitionDropped ==
  /\ normalizer_called = "MemberInfoNormalizer"
  /\ Len(C21_Candidates(raw_candidate)) = 2
  /\ C21_SamePair(C21_Candidates(raw_candidate)[1], C21_Candidates(raw_candidate)[2])
  /\ normalize_returned.list = <<C21_Candidates(raw_candidate)[1]>>

\* the call of the cross-validator was on this field, with a reference
\* record that has one of these keys
CrossCallOn(field, keys) ==
  /\ cross_call # None
  /\ cross_call.field_name = field
  /\ \E k \in keys : k \in DOMAIN cross_call.input_data.d

\* the reference value of the call: the record has one key
CrossReference == cross_call.input_data.d[CHOOSE k \in DOMAIN cross_call.input_data.d : TRUE]

\* a str or a number as text
C22_Text(v) == IF v.kind = "num" THEN IntToStr(v.n) ELSE v.s

\* the normalised phone: the canonical digits, or the text itself
C22_Normalised(r) == IF C16_Canonical(C16_Digits(r)) THEN C16_Digits(r) ELSE r

C22_Example(extracted, reference, consistent) ==
  (cross_call.extracted_value = Str(extracted) /\ CrossReference = Str(reference)) =>
    cross_returned.is_consistent = consistent

\* C22: for the phone field the cross-source validator reports is_consistent
\* true with similarity 1.0 exactly when the normalised extracted phone equals
\* the normalised reference phone, and is_consistent false with similarity 0.0
\* otherwise; '0912345678' against '0912345678' is consistent, against
\* '0987654321' it is not.
C22_PhoneConsistentIffEqualNormalised ==
  CrossCallOn("so_dien_thoai", {"phone", "dien_thoai", "sdt"}) =>
    /\ IF C22_Normalised(C22_Text(cross_call.extracted_value))
            = C22_Normalised(C22_Text(CrossReference))
       THEN cross_returned.is_consistent
            /\ cross_returned.similarity_score = [num |-> 1, den |-> 1]
       ELSE ~cross_returned.is_consistent
            /\ cross_returned.similarity_score = [num |-> 0, den |-> 1]
    /\ C22_Example(<<"0","9","1","2","3","4","5","6","7","8">>,
                   <<"0","9","1","2","3","4","5","6","7","8">>, TRUE)
    /\ C22_Example(<<"0","9","1","2","3","4","5","6","7","8">>,
                   <<"0","9","8","7","6","5","4","3","2","1">>, FALSE)

\* '+84 912 345 678' against the reference '0912345678': written differently,
\* equal when normalised, and reported consistent
C22_Witness ==
  /\ CrossCallOn("so_dien_thoai", {"sdt"})
  /\ cross_call.extracted_value
       = Str(<<"+","8","4"," ","9","1","2"," ","3","4","5"," ","6","7","8">>)
  /\ CrossReference = Str(<<"0","9","1","2","3","4","5","6","7","8">>)
  /\ cross_returned.is_consistent
  /\ cross_returned.similarity_score = [num |-> 1, den |-> 1]

\* '0912345678' against the reference '0987654321': reported inconsistent
C22_WitnessDiffers ==
  /\ CrossCallOn("so_dien_thoai", {"phone"})
  /\ cross_call.extracted_value = Str(<<"0","9","1","2","3","4","5","6","7","8">>)
  /\ CrossReference = Str(<<"0","9","8","7","6","5","4","3","2","1">>)
  /\ ~cross_returned.is_consistent
  /\ cross_returned.similarity_score = [num |-> 0, den |-> 1]

\* a reference record was supplied and it has none of the keys of the field
C23_NoReferenceFor(f) ==
  /\ Truthy(input_data)
  /\ Range(field_mappings(f)) \cap DOMAIN input_data.d = {}

C23_CrossErrors ==
  { "Cross-validation failed: " \o notes :
      notes \in {"Normalized", "Difference", "Cannot compare as numbers",
                 "String comparison", "No corresponding input data found"} }

\* C23: when the reference record has none of the keys mapped to a field, the
\* cross-source validator reports that no reference data was found for the
\* field and the field is not counted as inconsistent: there is no entry for
\* it among the inconsistencies and no cross-validation error among the
\* validation errors of the field's result.
C23_NoReferenceIsNotInconsistent ==
  /\ (Returned /\ C23_NoReferenceFor(field_name)) =>
       Range(field_result.validation_errors) \cap C23_CrossErrors = {}
  /\ (pc \in {"summary", "done"} /\ cross_validation # None) =>
       \A f \in DOMAIN extracted_fields :
         C23_NoReferenceFor(f) =>
           /\ Range(extracted_fields[f].validation_errors) \cap C23_CrossErrors = {}
           /\ f \notin Range(cross_validation.inconsistencies)
           /\ f \in DOMAIN cross_validation.field_validations =>
                /\ cross_validation.field_validations[f].is_consistent
                /\ cross_validation.field_validations[f].comparison_notes
                     = "No corresponding input data found"

\* a call has returned: the reference record has no key for the bank, the
\* bank was extracted, and the record holds other inconsistencies only
C23_Witness ==
  /\ pc = "done"
  /\ cross_validation # None
  /\ C23_NoReferenceFor("ngan_hang")
  /\ "ngan_hang" \in DOMAIN cross_validation.field_validations
  /\ cross_validation.field_validations["ngan_hang"].comparison_notes
       = "No corresponding input data found"
  /\ extracted_fields["ngan_hang"].validation_errors = <<>>
  /\ cross_validation.inconsistencies # <<>>

\* the value is an amount: an income record, a number, or digits with commas
C24_IsAmount(v) ==
  \/ v.kind \in {"income", "num"}
  \/ v.kind = "str" /\ IsFloatStr(v.s)

C24_Amount(v) ==
  CASE v.kind = "income" -> v.amount
    [] v.kind = "num" -> v.n
    [] v.kind = "str" -> FloatOf(v.s)

\* the two amounts differ by no more than 10% of the reference amount
C24_WithinTenPercent(extracted, reference) ==
  Abs(extracted - reference) * 10 <= reference

\* the two amounts differ by less than 10% of the larger of the reference
\* amount and 1
C24_UnderTenPercent(extracted, reference) ==
  Abs(extracted - reference) * 10 < Max(reference, 1)

C24_SimilarityInUnitInterval ==
  /\ cross_returned.similarity_score.den > 0
  /\ cross_returned.similarity_score.num >= 0
  /\ cross_returned.similarity_score.num <= cross_returned.similarity_score.den

\* C24: for the income field the cross-source validator reports a match
\* exactly when the extracted amount differs from the reference amount by no
\* more than 10% of the reference amount, and the reported similarity always
\* lies in [0, 1].
C24_AsStated ==
  CrossCallOn("thu_nhap", {"income", "salary", "luong", "thu_nhap"}) =>
    /\ cross_returned.is_consistent <=>
         /\ C24_IsAmount(cross_call.extracted_value)
         /\ C24_IsAmount(CrossReference)
         /\ C24_WithinTenPercent(C24_Amount(cross_call.extracted_value),
                                 C24_Amount(CrossReference))
    /\ C24_SimilarityInUnitInterval

\* what the comparison computes: a match exactly when the difference is less
\* than 10%, and a similarity in [0, 1]
C24_MatchIffUnderTenPercent ==
  CrossCallOn("thu_nhap", {"income", "salary", "luong", "thu_nhap"}) =>
    /\ cross_returned.is_consistent <=>
         /\ C24_IsAmount(cross_call.extracted_value)
         /\ C24_IsAmount(CrossReference)
         /\ C24_UnderTenPercent(C24_Amount(cross_call.extracted_value),
                                C24_Amount(CrossReference))
    /\ C24_SimilarityInUnitInterval

\* 1100 against the reference 1000: the difference is 10% of the reference,
\* and no match is reported
C24_TenPercentIsNoMatch ==
  /\ CrossCallOn("thu_nhap", {"income"})
  /\ C24_IsAmount(cross_call.extracted_value)
  /\ C24_Amount(cross_call.extracted_value) = 1100
  /\ CrossReference = Num(1000)
  /\ ~cross_returned.is_consistent
  /\ cross_returned.similarity_score = [num |-> 900, den |-> 1000]

\* the value as the claim reads it, lower-cased and trimmed: the code of a
\* bank record, the text of a str
C25_Text(v) ==
  strip(lower(IF v.kind = "bank" /\ v.code # <<>> THEN v.code
              ELSE IF v.kind = "str" THEN v.s
              ELSE PyStr(v)))

C25_EqualOrContained(a, b) == a = b \/ Contains(a, b) \/ Contains(b, a)

C25_GenericCall ==
  \/ CrossCallOn("ngan_hang", {"bank", "ngan_hang"})
  \/ CrossCallOn("ma_ho_gia_dinh", {"household_code", "ma_ho", "hgd"})
  \/ CrossCallOn("thong_tin_thanh_vien", {"members", "thanh_vien", "family"})

\* C25: for bank, household code and member list the cross-source validator
\* reports a match when the extracted value equals the reference value or one
\* contains the other (case-insensitive, trimmed); in particular an extracted
\* bank whose normalised code equals the reference bank code (reference bank
\* 'VCB') is reported consistent.
C25_AsStated ==
  C25_GenericCall =>
    (C25_EqualOrContained(C25_Text(cross_call.extracted_value), C25_Text(CrossReference))
       => cross_returned.is_consistent)

\* the bank record with code 'VCB' against the reference bank 'VCB': the record
\* is compared as its printed form, and reported inconsistent with similarity 0.7
C25_BankCodeEqualIsInconsistent ==
  /\ CrossCallOn("ngan_hang", {"bank"})
  /\ cross_call.extracted_value = BankNormalizer_normalize(<<"V","C","B">>)
  /\ cross_call.extracted_value.code = <<"V","C","B">>
  /\ CrossReference = Str(<<"V","C","B">>)
  /\ ~cross_returned.is_consistent
  /\ cross_returned.similarity_score = [num |-> 7, den |-> 10]

\* the household code 'HGD123456789' against the reference 'HGD1234567890'
\* that contains it: no match, similarity 0.7
C25_ContainedIsNoMatch ==
  /\ CrossCallOn("ma_ho_gia_dinh", {"household_code"})
  /\ cross_call.extracted_value = Str(<<"H","G","D","1","2","3","4","5","6","7","8","9">>)
  /\ CrossReference = Str(<<"H","G","D","1","2","3","4","5","6","7","8","9","0">>)
  /\ ~cross_returned.is_consistent
  /\ cross_returned.similarity_score = [num |-> 7, den |-> 10]

\* the texts ' vcb' and 'vcb ' are equal once lower-cased and trimmed, and match
C25_EqualTextMatches ==
  /\ CrossCallOn("ngan_hang", {"ngan_hang"})
  /\ cross_call.extracted_value = Str(<<" ","v","c","b">>)
  /\ CrossReference = Str(<<"v","c","b"," ">>)
  /\ cross_returned.is_consistent
  /\ cross_returned.similarity_score = [num |-> 1, den |-> 1]

\* _extract_single_field has returned the result it built, and neither the
\* validation nor the scoring of the field failed
C26_Built ==
  /\ Returned
  /\ best # None
  /\ phases[field_name] # <<>>
  /\ phases[field_name][Len(phases[field_name])] = "Finalized"
  /\ faulted \cap {"validate", "score"} = {}

\* the ExtractionResult of the field for the same winner and the same
\* normalised value, with these validation errors
C26_ResultWith(errors) ==
  build_extraction_result(field_name, best, normalized_value, errors,
                          calculate_confidence_score(best.base, errors, best.method))

\* the validation errors of the field when no reference record is supplied
C26_ErrorsWithoutReference ==
  validate_field_value(field_name, normalized_value, None, FALSE, TRUE).errors

\* the entry that the reference record adds to the validation errors: none, or
\* one when the field's validator has not raised and the cross-source
\* validator reports the value inconsistent
C26_ErrorsOfReference ==
  IF Truthy(input_data)
     /\ ~Validator(field_name, normalized_value).raised
     /\ ~validate_field_consistency(field_name, normalized_value, input_data).is_consistent
  THEN << "Cross-validation failed: "
            \o validate_field_consistency(field_name, normalized_value,
                                          input_data).comparison_notes >>
  ELSE <<>>

\* CrossValidationRecords are present only when a reference record was supplied
C26_RecordsOnlyWithReference == cross_validation # None => Truthy(input_data)

\* C26: a field's ExtractionResult (value, confidence, tier, validation errors)
\* is produced by strategies, arbiter, normaliser and validator alone and is
\* the same whether or not a reference record is supplied; the reference
\* record only adds CrossValidationRecords, which are present only when a
\* reference record was supplied.
C26_AsStated ==
  /\ C26_Built => field_result = C26_ResultWith(C26_ErrorsWithoutReference)
  /\ C26_RecordsOnlyWithReference

\* C26, as the code has it: a field's ExtractionResult is the one produced
\* without a reference record, except that, when the field's validator has not
\* raised, a reference record with which the cross-source validator reports
\* the normalised value inconsistent adds one 'Cross-validation failed' entry
\* to the validation errors, and confidence and tier are computed from the
\* errors with that entry; CrossValidationRecords are present only when a
\* reference record was supplied.
C26_ReferenceAddsAnError ==
  /\ C26_Built =>
       field_result = C26_ResultWith(C26_ErrorsWithoutReference \o C26_ErrorsOfReference)
  /\ C26_RecordsOnlyWithReference

\* a result was built under a reference record that disagrees with the value:
\* it carries the added error, and a confidence other than without the record
C26_Witness ==
  /\ C26_Built
  /\ C26_ErrorsOfReference # <<>>
  /\ field_result.validation_errors = C26_ErrorsWithoutReference \o C26_ErrorsOfReference
  /\ field_result.confidence_score
       # C26_ResultWith(C26_ErrorsWithoutReference).confidence_score

\* the records of the cross-validation are there, under a reference record
C26_WitnessRecords ==
  /\ pc = "done"
  /\ cross_validation # None
  /\ Truthy(input_data)

\* _extract_single_field has returned the result it built from a winner
C27_Built ==
  /\ Returned
  /\ best # None
  /\ phases[field_name] # <<>>
  /\ phases[field_name][Len(phases[field_name])] = "Finalized"

\* the candidates that the strategies can find for the field
C27_Candidates == {SampleA(field_name), SampleB(field_name), SampleC(field_name)}

\* the normalisation steps recorded for a candidate that is normalised
C27_StepsOf(raw) ==
  get_normalization_applied(field_name, raw, normalize_field_value(field_name, raw, FALSE))

\* C27: for every field that has a winning candidate, the raw candidate string
\* is recoverable from the result's normalisation-step metadata, including
\* when normalisation fails: no other candidate of the field leaves the same
\* normalisation steps in the result.
C27_AsStated ==
  C27_Built =>
    \A raw \in C27_Candidates :
      C27_StepsOf(raw) = field_result.normalization_applied => raw = best.value

\* the income '50' has won; the steps recorded are those that '2 tỷ' leaves too
C27_StepsOfAnotherCandidate ==
  /\ C27_Built
  /\ field_name = "thu_nhap"
  /\ best.value = Str(<<"5","0">>)
  /\ field_result.normalization_applied = <<"value_changed", "currency_parsed">>
  /\ C27_StepsOf(Str(<<"2"," ","t","y3">>)) = field_result.normalization_applied

\* the phone 'abc' has won and the normaliser has returned it unchanged: no
\* step is recorded
C27_NoStepWhenUnchanged ==
  /\ C27_Built
  /\ field_name = "so_dien_thoai"
  /\ best.value = Str(<<"a","b","c">>)
  /\ field_result.extracted_value = best.value
  /\ field_result.normalization_applied = <<>>

\* the texts of the elements matched by the first selector that matches any
RECURSIVE C28_MatchedFrom(_, _)
C28_MatchedFrom(selected, i) ==
  IF i > Len(selected) THEN <<>>
  ELSE IF selected[i].kind = "elements" /\ selected[i].texts # <<>> THEN selected[i].texts
  ELSE C28_MatchedFrom(selected, i + 1)

C28_Matched == C28_MatchedFrom(selector_call.selected, 1)

\* the text is a header or label token: name, relationship, birth year
C28_IsHeader(text) == lower(strip(text)) \in Range(skip_headers)

\* the texts, trimmed, of the elements that are neither empty nor a header
C28_Data(texts) ==
  LET kept == SelectSeq(texts, LAMBDA t : strip(t) # <<>> /\ ~C28_IsHeader(t))
  IN [i \in DOMAIN kept |-> strip(kept[i])]

\* the selector strategy was called for the member list and a selector
\* matched more than one element
C28_ManyMatched ==
  /\ selector_call # None
  /\ selector_call.field_name = "thong_tin_thanh_vien"
  /\ Len(C28_Matched) > 1

\* C28: for the member-list field, when a selector matches more than one
\* element, the selector strategy returns the matched elements' texts joined
\* with a '|' separator, leaving out exactly the elements whose text is empty
\* or equals a known header/label token (name, relationship, birth year); an
\* element whose text is data is never left out, and a header element's text
\* is never returned as the candidate.
C28_AsStated ==
  C28_ManyMatched =>
    IF C28_Data(C28_Matched) # <<>>
    THEN selector_returned = Str(JoinTexts(C28_Data(C28_Matched)))
    ELSE selector_returned = None \/ ~C28_IsHeader(selector_returned.s)

\* 'Họ tên: An' and 'Binh - Vợ' are matched: the first holds the label inside
\* its data and is left out
C28_DataLeftOut ==
  /\ C28_ManyMatched
  /\ C28_Matched = << <<"H","o5"," ","t","e2","n",":"," ","A","n">>,
                      <<"B","i","n","h"," ","-"," ","V","o7">> >>
  /\ selector_returned = Str(<<"B","i","n","h"," ","-"," ","V","o7">>)

\* 'Họ tên' and ' Quan hệ ' are matched: nothing is combined, and the first
\* header is returned as the candidate
C28_HeaderReturned ==
  /\ C28_ManyMatched
  /\ C28_Matched = << <<"H","o5"," ","t","e2","n">>,
                      <<" ","Q","u","a","n"," ","h","e6"," ">> >>
  /\ selector_returned = Str(<<"H","o5"," ","t","e2","n">>)

\* ' An - Con', 'Họ tên' and 'Binh - Vợ' are matched: the header is left out
\* and the two data texts are joined
C28_DataJoined ==
  /\ C28_ManyMatched
  /\ C28_Matched = << <<" ","A","n"," ","-"," ","C","o","n">>,
                      <<"H","o5"," ","t","e2","n">>,
                      <<"B","i","n","h"," ","-"," ","V","o7">> >>
  /\ selector_returned
       = Str(<<"A","n"," ","-"," ","C","o","n"," ","|"," ","B","i","n","h"," ","-"," ","V","o7">>)

\* the call has returned its result structure
C29_ResultReturned == pc = "done" /\ response = "results" /\ extraction_summary # None

\* the fields of the result structure whose quality tier is not failed
C29_NotFailed == { f \in DOMAIN extracted_fields : extracted_fields[f].quality_level # "failed" }

\* the fields of the result structure with a value that is neither empty nor None
C29_Valued == { f \in DOMAIN extracted_fields : Truthy(extracted_fields[f].extracted_value) }

C29_CountsAddUp ==
  /\ extraction_summary.total_fields = Cardinality(DOMAIN extracted_fields)
  /\ extraction_summary.successful_extractions + extraction_summary.failed_extractions
       = extraction_summary.total_fields
  /\ extraction_summary.success_rate
       = [num |-> extraction_summary.successful_extractions,
          den |-> extraction_summary.total_fields]

\* C29: in every result structure the summary and the per-field tiers agree:
\* a field is counted in successful_extractions if and only if its quality
\* tier is not failed, and in failed_extractions if and only if its tier is
\* failed; successful_extractions + failed_extractions = total_fields and
\* success_rate = successful_extractions / total_fields.
C29_AsStated ==
  C29_ResultReturned =>
    /\ extraction_summary.successful_extractions = Cardinality(C29_NotFailed)
    /\ extraction_summary.failed_extractions
         = Cardinality(DOMAIN extracted_fields \ C29_NotFailed)
    /\ C29_CountsAddUp

\* what the summary counts: the fields with a value, whatever their tier
C29_CountsValuedFields ==
  C29_ResultReturned =>
    /\ extraction_summary.successful_extractions = Cardinality(C29_Valued)
    /\ extraction_summary.failed_extractions
         = Cardinality(DOMAIN extracted_fields \ C29_Valued)
    /\ C29_CountsAddUp

\* a field is returned without a value in a tier other than failed, and is
\* counted as a failed extraction
C29_EmptyValueNotFailedTier ==
  /\ C29_ResultReturned
  /\ \E f \in C29_NotFailed : f \notin C29_Valued

\* a field is returned with a value in the tier failed, and is counted as a
\* successful extraction
C29_ValueInFailedTier ==
  /\ C29_ResultReturned
  /\ \E f \in C29_Valued : f \notin C29_NotFailed

\* the result of the member list has just been returned, it has a winning
\* candidate and its scoring did not raise
C30_MemberResult ==
  /\ C2_HasWinner
  /\ field_name = "thong_tin_thanh_vien"
  /\ "score" \notin RaisedIn(field_name)

\* the winning candidate normalises to a list that holds a member
C30_WinnerHasData == Truthy(Normalizer(field_name, best.value))

\* the formula of the other fields, from this confidence of the winner (tenths)
C30_Confidence(attempt_confidence) ==
  C2_Clamp((attempt_confidence - Len(field_result.validation_errors))
           * C2_BaseWeight(field_result.extraction_method))

\* C30: for the member-list field the 0.2 data-presence bonus is used only to
\* rank candidates during selection: the final confidence of the member-list
\* result is computed from the winning strategy's own base weight, without
\* the bonus, by the same formula as for the other fields.
C30_AsStated ==
  C30_MemberResult =>
    field_result.confidence_score
      = C30_Confidence(C2_AttemptConfidence(field_result.extraction_method))

\* C30, as the code has it: the winner of the member list that normalises to a
\* non-empty list is returned with the bonus added to the confidence it was
\* collected with, and the final confidence is computed from that sum by the
\* formula of the other fields; a winner without data carries no bonus.
C30_BonusEntersConfidence ==
  C30_MemberResult =>
    /\ best.base = C2_AttemptConfidence(best.method)
                     + (IF C30_WinnerHasData THEN data_quality_bonus ELSE 0)
    /\ field_result.confidence_score = C30_Confidence(best.base)

\* a member list found by the context search alone, with a member in it: the
\* confidence is (0.7 + 0.2) * 0.8 = 0.72, tier good, where the formula
\* without the bonus gives 0.56, tier moderate
C30_Witness ==
  /\ C30_MemberResult
  /\ C30_WinnerHasData
  /\ field_result.extraction_method = "context_search"
  /\ field_result.validation_errors = <<>>
  /\ field_result.confidence_score = 72
  /\ field_result.quality_level = "good"
  /\ C30_Confidence(C2_AttemptConfidence("context_search")) = 56

\* a member text without a member has won: no bonus is carried
C30_WitnessNoData ==
  /\ C30_MemberResult
  /\ ~C30_WinnerHasData
  /\ best.base = C2_AttemptConfidence(best.method)

====
